---- MODULE Spec2Model ----
(***************************************************************************)
(* Model of the day 12 game engine of shuttlings-cch24 (src/src/day_12.rs):*)
(* the board, the gravity drop, the win detector, the seeded random board  *)
(* and the four axum handlers reset / board / random / place, which share  *)
(* one Board and one RandomBoard, each behind its own tokio Mutex.         *)
(*                                                                         *)
(* Every handler is cut at its .await points (the lock acquisitions): a    *)
(* call is one step that validates the arguments and asks for the lock,    *)
(* and one step per lock acquisition that runs the code up to the next     *)
(* .await or to the return.  The critical section of place is cut once     *)
(* more, between free_spot and place_team, so that the exclusion the lock  *)
(* gives is something the model depends on.                                *)
(*                                                                         *)
(* The other handlers follow, each with a specification of its own: the    *)
(* address arithmetic of day 2 (src/src/day_2.rs), the manifest reader of  *)
(* day 5 (src/src/day5.rs), the token handlers of day 16                   *)
(* (src/src/day_16.rs), the paged quote list of day 19                     *)
(* (src/src/day_19.rs), whose token map sits behind a Mutex of its own,    *)
(* and the rate-limited milk handler of day 9 (src/src/day_9.rs).          *)
(***************************************************************************)
EXTENDS Integers, Sequences, FiniteSets, TLC

(* ------------------------------ bounds -------------------------------- *)

\* number of concurrent callers (tasks serving requests)
NumCallers == 2

\* number of handler invocations explored after the initial state
MaxCalls == 2

\* in a scripted game: number of calls beside the placements that put a
\* token (inspections, and placements that are refused)
MaxOtherCalls == 2

\* in a session of the random board: number of random and reset calls
MaxRandomCalls == 5

(* ---------------------------- BoardConfig ------------------------------ *)

ROWS == 5

COLUMNS == 6

playable_rows == 0..3

playable_columns == 1..4

Rows == 0..(ROWS - 1)

Cols == 0..(COLUMNS - 1)

(* ------------------------- Team, Tile, Winner -------------------------- *)

Cookie == "cookie"

Milk == "milk"

Teams == {Cookie, Milk}

Empty == "Tile::Empty"

Wall == "Tile::Wall"

TileCookie == "Tile::Team(Cookie)"

TileMilk == "Tile::Team(Milk)"

TeamTiles == {TileCookie, TileMilk}

Tiles == {Empty, Wall} \cup TeamTiles

None == "None"

Tie == "Winner::Tie"

WinCookie == "Winner::Team(Cookie)"

WinMilk == "Winner::Team(Milk)"

\* the value of an expression whose evaluation hit unreachable!()
Unreachable == "unreachable!()"

\* impl From<Team> for Tile
TileFrom(team) == IF team = Cookie THEN TileCookie ELSE TileMilk

\* Winner::Team(t)
WinnerTeam(team) == IF team = Cookie THEN WinCookie ELSE WinMilk

\* the team inside a Tile::Team(t)
TeamOf(tile) == IF tile = TileCookie THEN Cookie ELSE Milk

\* impl From<Tile> for Winner
WinnerFrom(tile) ==
    IF tile \in TeamTiles THEN WinnerTeam(TeamOf(tile)) ELSE Unreachable

(* ------------------------------- Display ------------------------------- *)

\* impl Display for Tile (the four emoji of the source, written in ASCII)
TileDisplay(tile) ==
    CASE tile = TileCookie -> "(cookie)"
      [] tile = TileMilk -> "(milk)"
      [] tile = Empty -> "[black]"
      [] tile = Wall -> "[white]"

\* impl Display for Winner
WinnerDisplay(w) ==
    CASE w = WinCookie -> TileDisplay(TileFrom(Cookie)) \o " wins!"
      [] w = WinMilk -> TileDisplay(TileFrom(Milk)) \o " wins!"
      [] w = Tie -> "No winner."

RECURSIVE JoinRow(_, _)
\* row.iter().map(to_string).collect().join(""), columns 0..upto
JoinRow(rowTiles, upto) ==
    IF upto < 0 THEN ""
    ELSE JoinRow(rowTiles, upto - 1) \o TileDisplay(rowTiles[upto])

\* the value of F at x, x being evaluated once
Once(F(_), x) == CHOOSE r \in {F(v) : v \in {x}} : TRUE

\* Display for Board without the arm Some(w): the result is never written
BoardToString_no_result(b) ==
    [i \in 1..ROWS |-> JoinRow(b.tiles[i - 1], COLUMNS - 1)]

\* impl Display for Board: the text as the sequence of its lines
BoardToString(b) ==
    LET Text(v) ==
            LET lines == [i \in 1..ROWS |-> JoinRow(v.tiles[i - 1], COLUMNS - 1)]
            IN  IF v.winner # None THEN Append(lines, WinnerDisplay(v.winner))
                ELSE lines
    IN  Once(Text, b)

(* -------------------------------- Board -------------------------------- *)

IsWallCell(i, j) == (i \in 0..3 /\ j \in {0, 5}) \/ i = 4

\* Board::new
BoardNew ==
    [tiles |-> [i \in Rows |-> [j \in Cols |->
                    IF IsWallCell(i, j) THEN Wall ELSE Empty]],
     winner |-> None]

\* board_full that never finds the board full
board_full_never(b) == FALSE

\* Board::board_full
board_full(b) == ~(\E i \in Rows : \E j \in Cols : b.tiles[i][j] = Empty)

SetMax(S) == CHOOSE x \in S : \A y \in S : y <= x

SetMin(S) == CHOOSE x \in S : \A y \in S : x <= y

\* Option<usize>::None of free_spot
NoRow == -1

\* free_spot answering the top row when no tile of the column is Empty
free_spot_overwrite(b, col) ==
    LET found == {i \in Rows : b.tiles[i][col] = Empty}
    IN  IF found = {} THEN 0 ELSE SetMax(found)

\* free_spot scanning from the first row down: the topmost Empty tile
free_spot_top(b, col) ==
    LET found == {i \in Rows : b.tiles[i][col] = Empty}
    IN  IF found = {} THEN NoRow ELSE SetMin(found)

\* Board::free_spot: the first row, scanning from the last one up, whose
\* tile in the column is Empty
free_spot(b, col) ==
    LET found == {i \in Rows : b.tiles[i][col] = Empty}
    IN  IF found = {} THEN NoRow ELSE SetMax(found)

\* place_team putting the token one row above the free spot it is given
place_team_floats(b, team, row, col) ==
    [b EXCEPT !.tiles[IF row > 0 THEN row - 1 ELSE row][col] = TileFrom(team)]

\* Board::place_team
place_team(b, team, row, col) ==
    [b EXCEPT !.tiles[row][col] = TileFrom(team)]

\* Board::winner_on_row
winner_on_row(b) ==
    LET col0 == SetMin(playable_columns)
        hits == {row \in playable_rows :
                    /\ \A col \in playable_columns : b.tiles[row][col] = b.tiles[row][col0]
                    /\ b.tiles[row][col0] # Empty}
    IN  IF hits = {} THEN None
        ELSE LET winning_row == SetMin(hits)
             IN  IF b.tiles[winning_row][1] \in TeamTiles
                 THEN WinnerTeam(TeamOf(b.tiles[winning_row][1]))
                 ELSE None

\* winner_on_column without the test against Tile::Empty, every tile that
\* is not Cookie's taken for Milk's
winner_on_column_unguarded(b) ==
    LET row0 == SetMin(playable_rows)
        hits == {col \in playable_columns :
                    \A row \in playable_rows : b.tiles[row][col] = b.tiles[row0][col]}
    IN  IF hits = {} THEN None
        ELSE WinnerTeam(TeamOf(b.tiles[0][SetMin(hits)]))

\* winner_on_column starting its search at the second playable column
winner_on_column_from_two(b) ==
    LET row0 == SetMin(playable_rows)
        hits == {col \in playable_columns \ {1} :
                    /\ \A row \in playable_rows : b.tiles[row][col] = b.tiles[row0][col]
                    /\ b.tiles[row0][col] # Empty}
    IN  IF hits = {} THEN None
        ELSE LET winning_col == SetMin(hits)
             IN  IF b.tiles[0][winning_col] \in TeamTiles
                 THEN WinnerTeam(TeamOf(b.tiles[0][winning_col]))
                 ELSE None

\* Board::winner_on_column
winner_on_column(b) ==
    LET row0 == SetMin(playable_rows)
        hits == {col \in playable_columns :
                    /\ \A row \in playable_rows : b.tiles[row][col] = b.tiles[row0][col]
                    /\ b.tiles[row0][col] # Empty}
    IN  IF hits = {} THEN None
        ELSE LET winning_col == SetMin(hits)
             IN  IF b.tiles[0][winning_col] \in TeamTiles
                 THEN WinnerTeam(TeamOf(b.tiles[0][winning_col]))
                 ELSE None

\* winner_on_diagonal without its second half (lines 269-277)
winner_on_diagonal_first_only(b) ==
    LET first_diagonal == [i \in 0..3 |-> b.tiles[i][1 + i]]
    IN  IF (\A i \in 0..3 : first_diagonal[i] = first_diagonal[0])
            /\ first_diagonal[0] # Empty
        THEN WinnerFrom(first_diagonal[0])
        ELSE None

\* winner_on_diagonal without the tests against Tile::Empty
winner_on_diagonal_unguarded(b) ==
    LET first_diagonal == [i \in 0..3 |-> b.tiles[i][1 + i]]
        last_diagonal == [i \in 0..3 |-> b.tiles[i][4 - i]]
    IN  IF \A i \in 0..3 : first_diagonal[i] = first_diagonal[0]
        THEN WinnerFrom(first_diagonal[0])
        ELSE IF \A i \in 0..3 : last_diagonal[i] = last_diagonal[0]
        THEN WinnerFrom(last_diagonal[0])
        ELSE None

\* Board::winner_on_diagonal
winner_on_diagonal(b) ==
    LET first_diagonal == [i \in 0..3 |-> b.tiles[i][1 + i]]
        last_diagonal == [i \in 0..3 |-> b.tiles[i][4 - i]]
    IN  IF (\A i \in 0..3 : first_diagonal[i] = first_diagonal[0])
            /\ first_diagonal[0] # Empty
        THEN WinnerFrom(first_diagonal[0])
        ELSE IF (\A i \in 0..3 : last_diagonal[i] = last_diagonal[0])
                 /\ last_diagonal[0] # Empty
        THEN WinnerFrom(last_diagonal[0])
        ELSE None

\* set_winner asking board_full before it looks for a line
set_winner_tie_first(b) ==
    LET Set(v) ==
            [v EXCEPT !.winner =
                IF board_full(v) THEN Tie
                ELSE IF winner_on_row(v) # None THEN winner_on_row(v)
                ELSE IF winner_on_column(v) # None THEN winner_on_column(v)
                ELSE winner_on_diagonal(v)]
    IN  Once(Set, b)

\* set_winner without its early returns: each check overwrites the result
\* of the one before
set_winner_keeps_last(b) ==
    LET Set(v) ==
            [v EXCEPT !.winner =
                IF winner_on_diagonal(v) # None THEN winner_on_diagonal(v)
                ELSE IF board_full(v) THEN Tie
                ELSE None]
    IN  Once(Set, b)

\* Board::set_winner: the board with self.winner as set_winner leaves it
\* (Unreachable when the conversion in winner_on_diagonal panics)
set_winner(b) ==
    LET Set(v) ==
            [v EXCEPT !.winner =
                IF winner_on_row(v) # None THEN winner_on_row(v)
                ELSE IF winner_on_column(v) # None THEN winner_on_column(v)
                ELSE IF winner_on_diagonal(v) # None THEN winner_on_diagonal(v)
                ELSE IF board_full(v) THEN Tie
                ELSE None]
    IN  Once(Set, b)

(* ----------------------------- RandomBoard ----------------------------- *)

\* number of gen::<bool>() calls of one randomize_board: one per playable tile
DrawsPerBoard == Cardinality(playable_rows) * Cardinality(playable_columns)

\* The output of StdRng::seed_from_u64(2024) is one fixed sequence of
\* booleans that the source does not spell out.  The model learns it as it
\* is drawn: stream holds the draws made so far, a draw beyond its end takes
\* a fresh value, and a draw at a position already known repeats it.  Fresh
\* values come 16 at a time from DrawWindows: runs of d equal draws, the
\* first run true (ph = 0) or false (ph = 1).  Runs of 4 fill every row of
\* the board with one team; runs of 3 give a board without a line.
DrawWindows ==
    {[k \in 0..(DrawsPerBoard - 1) |-> ((k \div w[1]) + w[2]) % 2 = 0] :
        w \in {<<4, 0>>, <<3, 1>>}}

\* RandomBoard::new: an empty board and the generator at the start of its
\* sequence (seed is the number of draws made since seed_from_u64)
RandomBoardNew == [board |-> BoardNew, seed |-> 0]

\* the k-th draw after position pos, fresh being the window used beyond
\* the known part of the sequence
Draw(known, pos, k, fresh) ==
    IF pos + k < Len(known) THEN known[pos + k + 1] ELSE fresh[k]

\* the sequence as known after one randomize_board at position pos
StreamAfter(known, pos, fresh) ==
    [n \in 1..(IF pos + DrawsPerBoard > Len(known) THEN pos + DrawsPerBoard
               ELSE Len(known)) |->
        IF n <= Len(known) THEN known[n] ELSE fresh[n - 1 - pos]]

\* the draws of one randomize_board taken column by column
DrawIndex_column_major(i, j) == (j - 1) * Cardinality(playable_rows) + i

\* the index, among the draws of one randomize_board, of the draw made for
\* tile (i, j): the closure runs row by row, column by column, and only
\* the playable tiles reach gen::<bool>()
DrawIndex(i, j) == i * Cardinality(playable_columns) + (j - 1)

\* randomize_board without the arm (4, _) => Tile::Wall: the tiles of the
\* last row are drawn like the playable ones
randomize_board_no_floor(rb, known, fresh) ==
    [board |-> [rb.board EXCEPT !.tiles =
                    [i \in Rows |-> [j \in Cols |->
                        IF i \in 0..3 /\ j \in {0, 5} THEN Wall
                        ELSE IF Draw(known, rb.seed, (i * 4 + (j - 1)) % DrawsPerBoard, fresh)
                             THEN TileCookie ELSE TileMilk]]],
     seed |-> rb.seed + DrawsPerBoard]

\* randomize_board leaving the tile Empty when the draw is false
randomize_board_false_empty(rb, known, fresh) ==
    [board |-> [rb.board EXCEPT !.tiles =
                    [i \in Rows |-> [j \in Cols |->
                        IF IsWallCell(i, j) THEN Wall
                        ELSE IF Draw(known, rb.seed, DrawIndex(i, j), fresh)
                             THEN TileCookie ELSE Empty]]],
     seed |-> rb.seed + DrawsPerBoard]

\* randomize_board followed by set_winner on the tiles it drew
randomize_board_sets_winner(rb, known, fresh) ==
    [board |-> set_winner([rb.board EXCEPT !.tiles =
                    [i \in Rows |-> [j \in Cols |->
                        IF IsWallCell(i, j) THEN Wall
                        ELSE IF Draw(known, rb.seed, DrawIndex(i, j), fresh)
                             THEN TileCookie ELSE TileMilk]]]),
     seed |-> rb.seed + DrawsPerBoard]

\* RandomBoard::randomize_board
randomize_board(rb, known, fresh) ==
    [board |-> [rb.board EXCEPT !.tiles =
                    [i \in Rows |-> [j \in Cols |->
                        IF IsWallCell(i, j) THEN Wall
                        ELSE IF Draw(known, rb.seed, DrawIndex(i, j), fresh)
                             THEN TileCookie ELSE TileMilk]]],
     seed |-> rb.seed + DrawsPerBoard]

(* ------------------------------- state --------------------------------- *)

VARIABLES
    board,         \* BoardState.board: the Board behind the first Mutex
    random_board,  \* BoardState.random_board: the RandomBoard behind the second
    stream,        \* the generator's output sequence as far as it is known
    board_lock,    \* the caller holding the Mutex of board, or NoCaller
    random_lock,   \* the caller holding the Mutex of random_board, or NoCaller
    pc,            \* per caller: where its handler stands
    req,           \* per caller: the handler called and its Path arguments
    row,           \* per caller: the row free_spot returned to place
    out,           \* the last answer a handler returned, and to which request
    calls,         \* history: handler invocations so far
    placed,        \* history: place calls answered 200 since the last Board::new
    lin,           \* history: the same calls run one at a time, each when it
                   \* was granted its lock
    db_state,      \* DbState: the quotes of the repository, the tokens map
                   \* and the caller holding its Mutex
    locals,        \* per caller: the local variables of list
    limiter        \* AppState.limiter: the tokens the RateLimiter holds

vars == <<board, random_board, stream, board_lock, random_lock,
          pc, req, row, out, calls, placed, lin, db_state, locals, limiter>>

Callers == 1..NumCallers

\* no MutexGuard is alive
NoCaller == 0

OK == 200

BAD_REQUEST == 400

SERVICE_UNAVAILABLE == 503

\* the status of a handler that has not returned
NoStatus == 0

\* the empty String body, "".to_string(): a text of no lines
EmptyBody == <<>>

NoReq == [op |-> "none", team |-> Cookie, column |-> 0]

\* nothing has been answered yet
NoOut == [req |-> NoReq, status |-> NoStatus, body |-> EmptyBody]

\* the column values a caller sends: every column of the board, the two
\* wall columns included
Columns == Cols

\* a request arrives and is served by caller c: callers are interchangeable
\* tasks, so a new request is given to the free caller of lowest index
CanCall(c) ==
    /\ calls < MaxCalls
    /\ pc[c] = "idle"
    /\ \A d \in Callers : d < c => pc[d] # "idle"

\* a handler starts: the request is kept and the handler runs to its first
\* .await, at
Begin(c, r, at) ==
    /\ req' = [req EXCEPT ![c] = r]
    /\ pc' = [pc EXCEPT ![c] = at]
    /\ calls' = calls + 1

\* a handler returns (status, body) for request r
Return(c, r, status, body) ==
    /\ pc' = [pc EXCEPT ![c] = "idle"]
    /\ req' = [req EXCEPT ![c] = NoReq]
    /\ row' = [row EXCEPT ![c] = NoRow]
    /\ out' = [req |-> r, status |-> status, body |-> body]

\* a lock that is granted whoever holds it
LockFree_always(lock) == TRUE

\* Mutex::lock().await completes only while no guard is alive
LockFree(lock) == lock = NoCaller

\* the range check of line 316 letting column 0 through
ColumnInRange_from_zero(column) == column \in 0..4

\* place, line 316: BoardConfig::playable_columns().contains(&column)
ColumnInRange(column) == column \in playable_columns

\* place, line 311: the team exists
TeamExists(team) == ~(team # Milk /\ team # Cookie)

\* place without the check of line 323
GameOver_never(b) == FALSE

\* the check of line 320 passing a game that has a winner
GameOver_only_tie(b) == b.winner = Tie

\* place, line 323: board.winner.is_some()
GameOver(b) == b.winner # None

(* ------------------- the handlers run one at a time -------------------- *)

\* what place does to the board when no other handler runs (lines 306-337)
PlaceAlone(b, team, column) ==
    IF ~(TeamExists(team) /\ ColumnInRange(column)) THEN b
    ELSE IF GameOver(b) \/ free_spot(b, column) = NoRow THEN b
    ELSE set_winner(place_team(b, team, free_spot(b, column), column))

\* what place answers when no other handler runs (lines 306-337)
PlaceAnswer(b, team, column) ==
    IF ~(TeamExists(team) /\ ColumnInRange(column))
    THEN [status |-> BAD_REQUEST, body |-> EmptyBody]
    ELSE IF GameOver(b) \/ free_spot(b, column) = NoRow
    THEN [status |-> SERVICE_UNAVAILABLE, body |-> BoardToString(b)]
    ELSE [status |-> OK, body |-> BoardToString(PlaceAlone(b, team, column))]

\* what board answers (line 294)
BoardAnswer(b) == [status |-> OK, body |-> BoardToString(b)]

\* the board randomize_board builds from the 16 draws that start at
\* position pos of the known sequence
RandomBoardAt(known, pos) ==
    randomize_board([board |-> BoardNew, seed |-> pos], known,
                    [k \in 0..(DrawsPerBoard - 1) |-> TRUE]).board

\* the answer does not render a random board
NoWindow == 0 - 1

\* no answer is expected from a caller that holds no lock
NoExpect == [status |-> NoStatus, body |-> EmptyBody, window |-> NoWindow]

\* a call is granted a lock and will answer a
Expecting(c, a) ==
    [status |-> a.status, body |-> a.body, window |-> NoWindow]

\* the answer of the call of c that returns now, the sequence being known
AnswerOf(e, known) ==
    IF e.window = NoWindow THEN [status |-> e.status, body |-> e.body]
    ELSE [status |-> e.status, body |-> BoardToString(RandomBoardAt(known, e.window))]

(* ------------------------------- place --------------------------------- *)

\* place that asks for the lock of board before it checks the column
PlaceStart_locks_first(c, team, column) ==
    /\ calls' = calls + 1
    /\ IF TeamExists(team)
       THEN /\ req' = [req EXCEPT ![c] =
                          [op |-> "place", team |-> team, column |-> column]]
            /\ pc' = [pc EXCEPT ![c] = "place_wait"]
            /\ UNCHANGED <<out, row, lin>>
       ELSE /\ Return(c, [op |-> "place", team |-> team, column |-> column],
                      BAD_REQUEST, EmptyBody)
            /\ lin' = [lin EXCEPT !.last = PlaceAnswer(lin.board, team, column)]
    /\ UNCHANGED <<board, random_board, stream, board_lock, random_lock, placed,
                   db_state, locals, limiter>>

\* place, lines 306-320: the argument checks, then the request for the lock
PlaceStart(c, team, column) ==
    /\ calls' = calls + 1
    /\ IF TeamExists(team) /\ ColumnInRange(column)
       THEN /\ req' = [req EXCEPT ![c] =
                          [op |-> "place", team |-> team, column |-> column]]
            /\ pc' = [pc EXCEPT ![c] = "place_wait"]
            /\ UNCHANGED <<out, row, lin>>
       ELSE /\ Return(c, [op |-> "place", team |-> team, column |-> column],
                      BAD_REQUEST, EmptyBody)
            /\ lin' = [lin EXCEPT !.last = PlaceAnswer(lin.board, team, column)]
    /\ UNCHANGED <<board, random_board, stream, board_lock, random_lock, placed,
                   db_state, locals, limiter>>

\* place, lines 320-329 and 335: the lock is granted; a finished game or a
\* full column is answered at once, else the row found is kept
PlaceLock(c) ==
    /\ pc[c] = "place_wait"
    /\ LockFree(board_lock)
    /\ IF GameOver(board) \/ free_spot(board, req[c].column) = NoRow
       THEN /\ Return(c, req[c], SERVICE_UNAVAILABLE, BoardToString(board))
            /\ UNCHANGED board_lock
            /\ lin' = [lin EXCEPT
                         !.board = PlaceAlone(@, req[c].team, req[c].column),
                         !.last = PlaceAnswer(lin.board, req[c].team, req[c].column)]
       ELSE /\ board_lock' = c
            /\ row' = [row EXCEPT ![c] = free_spot(board, req[c].column)]
            /\ pc' = [pc EXCEPT ![c] = "place_locked"]
            /\ UNCHANGED <<out, req>>
            /\ lin' = [lin EXCEPT
                         !.board = PlaceAlone(@, req[c].team, req[c].column),
                         !.expect[c] = Expecting(c,
                             PlaceAnswer(lin.board, req[c].team, req[c].column))]
    /\ UNCHANGED <<board, random_board, stream, random_lock, calls, placed,
                   db_state, locals, limiter>>

\* place, lines 330-332: place_team, set_winner, the answer, the guard dropped
PlacePut(c) ==
    /\ pc[c] = "place_locked"
    /\ LET b == set_winner(place_team(board, req[c].team, row[c], req[c].column))
       IN  IF b.winner = Unreachable
           THEN /\ board' = place_team(board, req[c].team, row[c], req[c].column)
                /\ pc' = [pc EXCEPT ![c] = "panicked"]
                /\ UNCHANGED <<out, req, row, placed, lin>>
           ELSE /\ board' = b
                /\ Return(c, req[c], OK, BoardToString(b))
                /\ placed' = placed + 1
                /\ lin' = [lin EXCEPT !.last = AnswerOf(lin.expect[c], stream),
                                      !.expect[c] = NoExpect]
    /\ board_lock' = IF board_lock = c THEN NoCaller ELSE board_lock
    /\ UNCHANGED <<random_board, stream, random_lock, calls, db_state, locals,
                   limiter>>

\* a place request arrives and is served by caller c
PlaceCall(c, team, column) == CanCall(c) /\ PlaceStart(c, team, column)

(* -------------------------------- board -------------------------------- *)

\* board, line 294: the request for the lock
BoardCall(c) ==
    /\ CanCall(c)
    /\ Begin(c, [NoReq EXCEPT !.op = "board"], "board_wait")
    /\ UNCHANGED <<board, random_board, stream, board_lock, random_lock,
                   row, out, placed, lin, db_state, locals, limiter>>

\* board replacing the board before it renders it, as reset does
BoardLock_replaces(c) ==
    /\ pc[c] = "board_wait"
    /\ LockFree(board_lock)
    /\ board' = BoardNew
    /\ Return(c, req[c], OK, BoardToString(BoardNew))
    /\ lin' = [lin EXCEPT !.last = BoardAnswer(lin.board)]
    /\ UNCHANGED <<random_board, stream, board_lock, random_lock,
                   calls, placed, db_state, locals, limiter>>

\* board, line 294: the lock is granted, the board rendered, the guard dropped
BoardLock(c) ==
    /\ pc[c] = "board_wait"
    /\ LockFree(board_lock)
    /\ Return(c, req[c], OK, BoardToString(board))
    /\ lin' = [lin EXCEPT !.last = BoardAnswer(lin.board)]
    /\ UNCHANGED <<board, random_board, stream, board_lock, random_lock,
                   calls, placed, db_state, locals, limiter>>

(* -------------------------------- reset -------------------------------- *)

\* reset, line 284: the request for the lock of board
ResetCall(c) ==
    /\ CanCall(c)
    /\ Begin(c, [NoReq EXCEPT !.op = "reset"], "reset_wait_board")
    /\ UNCHANGED <<board, random_board, stream, board_lock, random_lock,
                   row, out, placed, lin, db_state, locals, limiter>>

\* reset letting go of the first guard before it asks for the second lock
ResetLockBoard_unguarded(c) ==
    /\ pc[c] = "reset_wait_board"
    /\ LockFree(board_lock)
    /\ board_lock' = NoCaller
    /\ board' = BoardNew
    /\ placed' = 0
    /\ pc' = [pc EXCEPT ![c] = "reset_wait_random"]
    /\ lin' = [lin EXCEPT !.board = BoardNew,
                          !.expect[c] = Expecting(c, BoardAnswer(BoardNew))]
    /\ UNCHANGED <<random_board, stream, random_lock, req, row, out, calls,
                   db_state, locals, limiter>>

\* reset, lines 284-287: the lock of board is granted, the board replaced,
\* the lock of random_board asked for with the first guard alive
ResetLockBoard(c) ==
    /\ pc[c] = "reset_wait_board"
    /\ LockFree(board_lock)
    /\ board_lock' = c
    /\ board' = BoardNew
    /\ placed' = 0
    /\ pc' = [pc EXCEPT ![c] = "reset_wait_random"]
    /\ lin' = [lin EXCEPT !.board = BoardNew,
                          !.expect[c] = Expecting(c, BoardAnswer(BoardNew))]
    /\ UNCHANGED <<random_board, stream, random_lock, req, row, out, calls,
                   db_state, locals, limiter>>

\* reset, line 287: the lock of random_board is granted while the guard of
\* board is alive: the caller holds both
ResetLockRandom(c) ==
    /\ pc[c] = "reset_wait_random"
    /\ LockFree(random_lock)
    /\ random_lock' = c
    /\ pc' = [pc EXCEPT ![c] = "reset_locked"]
    /\ lin' = [lin EXCEPT !.seed = RandomBoardNew.seed, !.drawn = FALSE]
    /\ UNCHANGED <<board, random_board, stream, board_lock, req, row, out,
                   calls, placed, db_state, locals, limiter>>

\* reset replacing the board of the random session and keeping its generator
ResetBody_keeps_generator(c) ==
    /\ pc[c] = "reset_locked"
    /\ random_board' = [random_board EXCEPT !.board = BoardNew]
    /\ Return(c, req[c], OK, BoardToString(board))
    /\ board_lock' = IF board_lock = c THEN NoCaller ELSE board_lock
    /\ random_lock' = IF random_lock = c THEN NoCaller ELSE random_lock
    /\ lin' = [lin EXCEPT !.last = AnswerOf(lin.expect[c], stream),
                          !.expect[c] = NoExpect]
    /\ UNCHANGED <<board, stream, calls, placed, db_state, locals, limiter>>

\* reset, lines 288-290: the random board replaced, the game board rendered,
\* both guards dropped
ResetBody(c) ==
    /\ pc[c] = "reset_locked"
    /\ random_board' = RandomBoardNew
    /\ Return(c, req[c], OK, BoardToString(board))
    /\ board_lock' = IF board_lock = c THEN NoCaller ELSE board_lock
    /\ random_lock' = IF random_lock = c THEN NoCaller ELSE random_lock
    /\ lin' = [lin EXCEPT !.last = AnswerOf(lin.expect[c], stream),
                          !.expect[c] = NoExpect]
    /\ UNCHANGED <<board, stream, calls, placed, db_state, locals, limiter>>

(* ------------------------------- random -------------------------------- *)

\* random starting as reset does, at the lock of board
RandomCall_as_reset(c) ==
    /\ CanCall(c)
    /\ Begin(c, [NoReq EXCEPT !.op = "random"], "reset_wait_board")
    /\ UNCHANGED <<board, random_board, stream, board_lock, random_lock,
                   row, out, placed, lin, db_state, locals, limiter>>

\* random, line 300: the request for the lock of random_board
RandomCall(c) ==
    /\ CanCall(c)
    /\ Begin(c, [NoReq EXCEPT !.op = "random"], "random_wait")
    /\ UNCHANGED <<board, random_board, stream, board_lock, random_lock,
                   row, out, placed, lin, db_state, locals, limiter>>

\* random taking the lock of the board together with its own
RandomLock_takes_board(c) ==
    /\ pc[c] = "random_wait"
    /\ LockFree(random_lock)
    /\ LockFree(board_lock)
    /\ random_lock' = c
    /\ board_lock' = c
    /\ pc' = [pc EXCEPT ![c] = "random_locked"]
    /\ lin' = [lin EXCEPT !.seed = @ + DrawsPerBoard, !.drawn = TRUE,
                          !.expect[c] = [status |-> OK, body |-> EmptyBody,
                                         window |-> lin.seed]]
    /\ UNCHANGED <<board, random_board, stream, req, row, out, calls, placed,
                   db_state, locals, limiter>>

\* random, line 300: the lock is granted
RandomLock(c) ==
    /\ pc[c] = "random_wait"
    /\ LockFree(random_lock)
    /\ random_lock' = c
    /\ pc' = [pc EXCEPT ![c] = "random_locked"]
    /\ lin' = [lin EXCEPT !.seed = @ + DrawsPerBoard, !.drawn = TRUE,
                          !.expect[c] = [status |-> OK, body |-> EmptyBody,
                                         window |-> lin.seed]]
    /\ UNCHANGED <<board, random_board, stream, board_lock, req, row, out,
                   calls, placed, db_state, locals, limiter>>

\* random asking for the lock of the board while it holds the lock of the
\* random board: the two locks taken in the order opposite to reset
RandomBody_locks_board(c, fresh) ==
    /\ pc[c] = "random_locked"
    /\ LockFree(board_lock)
    /\ random_board' = randomize_board(random_board, stream, fresh)
    /\ stream' = StreamAfter(stream, random_board.seed, fresh)
    /\ Return(c, req[c], OK, BoardToString(random_board'.board))
    /\ random_lock' = IF random_lock = c THEN NoCaller ELSE random_lock
    /\ lin' = [lin EXCEPT !.last = AnswerOf(lin.expect[c], stream'),
                          !.expect[c] = NoExpect]
    /\ UNCHANGED <<board, board_lock, calls, placed, db_state, locals,
                   limiter>>

\* random writing the tiles it drew to the game board as well
RandomBody_on_game_board(c, fresh) ==
    /\ pc[c] = "random_locked"
    /\ random_board' = randomize_board(random_board, stream, fresh)
    /\ stream' = StreamAfter(stream, random_board.seed, fresh)
    /\ board' = [board EXCEPT !.tiles = random_board'.board.tiles]
    /\ Return(c, req[c], OK, BoardToString(random_board'.board))
    /\ random_lock' = IF random_lock = c THEN NoCaller ELSE random_lock
    /\ lin' = [lin EXCEPT !.last = AnswerOf(lin.expect[c], stream'),
                          !.expect[c] = NoExpect]
    /\ UNCHANGED <<board_lock, calls, placed, db_state, locals, limiter>>

\* random, lines 301-303: randomize_board, the answer, the guard dropped
RandomBody(c, fresh) ==
    /\ pc[c] = "random_locked"
    /\ random_board' = randomize_board(random_board, stream, fresh)
    /\ stream' = StreamAfter(stream, random_board.seed, fresh)
    /\ Return(c, req[c], OK, BoardToString(random_board'.board))
    /\ random_lock' = IF random_lock = c THEN NoCaller ELSE random_lock
    /\ lin' = [lin EXCEPT !.last = AnswerOf(lin.expect[c], stream'),
                          !.expect[c] = NoExpect]
    /\ UNCHANGED <<board, board_lock, calls, placed, db_state, locals,
                   limiter>>

(* --------------------------- specification ----------------------------- *)

RECURSIVE Replay(_, _)
\* the board after the place requests of moves, served one after the other
Replay(b, moves) ==
    IF moves = <<>> THEN b
    ELSE Replay(PlaceAlone(b, Head(moves)[1], Head(moves)[2]), Tail(moves))

\* three rows of alternating teams, no line, both diagonals one token short
Alternating ==
    << <<Cookie, 1>>, <<Milk, 2>>, <<Cookie, 3>>, <<Milk, 4>>,
       <<Milk, 1>>, <<Cookie, 2>>, <<Milk, 3>>, <<Cookie, 4>>,
       <<Cookie, 1>>, <<Milk, 2>>, <<Cookie, 3>>, <<Milk, 4>> >>

\* The games already played when the exploration starts: each is a sequence
\* of place requests served one at a time after the construction of the
\* state, so every initial state is one the server reaches.  The empty
\* sequence is the server right after construction.  The others bring the
\* game within MaxCalls requests of a full column, of a win on a column, a
\* row and each diagonal, of a tie, and of a 16th token that wins.
Played ==
    { <<>>,
      << <<Cookie, 1>>, <<Cookie, 1>>, <<Cookie, 1>> >>,
      << <<Cookie, 1>>, <<Cookie, 1>>, <<Cookie, 1>>, <<Milk, 1>> >>,
      << <<Cookie, 1>>, <<Cookie, 1>>, <<Cookie, 1>>, <<Cookie, 1>> >>,
      << <<Milk, 1>>, <<Milk, 2>>, <<Milk, 3>> >>,
      Alternating,
      Alternating \o << <<Cookie, 1>>, <<Milk, 2>>, <<Cookie, 3>> >>,
      Alternating \o << <<Cookie, 1>>, <<Milk, 2>>, <<Cookie, 3>>, <<Milk, 4>> >> }

\* the playable tiles holding a team
Occupied(b) ==
    {<<i, j>> \in playable_rows \X playable_columns : b.tiles[i][j] \in TeamTiles}

\* day_9.rs lines 12-15
INITIAL_TOKENS == 5

MAX_TOKENS == 5

REFILL_AMOUNT == 1

\* rate_limiter() (day_9.rs lines 74-81): a RateLimiter is given by the
\* number of tokens it holds; it is built holding INITIAL_TOKENS
rate_limiter == INITIAL_TOKENS

\* list has no local variable yet
NoLocals == [page |-> 0, total_pages |-> 0]

\* DbState (main.rs lines 24-27): a repository of so many quotes, and
\* state_tokens(), an empty map behind a Mutex no caller holds
DbStateNew(quotes) ==
    [quotes |-> quotes, tokens |-> <<>>, lock |-> NoCaller]

\* arc_board(), arc_random_board() (main.rs lines 33-36), then the requests
\* of one of games
GameInit(games) ==
    /\ \E moves \in games : board = Replay(BoardNew, moves)
    /\ random_board = RandomBoardNew
    /\ stream = <<>>
    /\ board_lock = NoCaller
    /\ random_lock = NoCaller
    /\ pc = [c \in Callers |-> "idle"]
    /\ req = [c \in Callers |-> NoReq]
    /\ row = [c \in Callers |-> NoRow]
    /\ out = NoOut
    /\ calls = 0
    /\ placed = Cardinality(Occupied(board))
    /\ lin = [board |-> board, seed |-> RandomBoardNew.seed, drawn |-> FALSE,
              expect |-> [c \in Callers |-> NoExpect],
              last |-> [status |-> NoStatus, body |-> EmptyBody]]

\* the server as main constructs it, on an empty repository, then the
\* requests of one of games
InitAfter(games) ==
    /\ GameInit(games)
    /\ db_state = DbStateNew(0)
    /\ locals = [c \in Callers |-> NoLocals]
    /\ limiter = rate_limiter

Init == InitAfter(Played)

Next ==
    \/ \E c \in Callers, team \in Teams, column \in Columns : PlaceCall(c, team, column)
    \/ \E c \in Callers : PlaceLock(c)
    \/ \E c \in Callers : PlacePut(c)
    \/ \E c \in Callers : BoardCall(c)
    \/ \E c \in Callers : BoardLock(c)
    \/ \E c \in Callers : ResetCall(c)
    \/ \E c \in Callers : ResetLockBoard(c)
    \/ \E c \in Callers : ResetLockRandom(c)
    \/ \E c \in Callers : ResetBody(c)
    \/ \E c \in Callers : RandomCall(c)
    \/ \E c \in Callers : RandomLock(c)
    \/ \E c \in Callers, fresh \in DrawWindows : RandomBody(c, fresh)

Spec == Init /\ [][Next]_vars

\* the steps that complete a call already received
Progress ==
    \E c \in Callers :
        \/ PlaceLock(c) \/ PlacePut(c) \/ BoardLock(c)
        \/ ResetLockBoard(c) \/ ResetLockRandom(c) \/ ResetBody(c)
        \/ RandomLock(c) \/ \E fresh \in DrawWindows : RandomBody(c, fresh)

\* The runtime polls the tasks that are ready and tokio's Mutex hands a
\* free lock to a caller waiting for it: while some step of a call in
\* progress is possible, one is taken.  (The Mutex also serves its waiters
\* in the order of their requests; that stronger guarantee is not needed.)
Fairness == WF_vars(Progress)

\* The fair behaviours are explored from a game whose column 1 is full and
\* which has no result, with the place requests of one team on a wall
\* column, on column 1 and on column 2: the first is answered 400 when it
\* is received, the second is refused as soon as it is granted the lock,
\* the third keeps the lock to put its token.
FairInit ==
    InitAfter({ << <<Cookie, 1>>, <<Cookie, 1>>, <<Cookie, 1>>, <<Milk, 1>> >> })

FairColumns == {0, 1, 2}

FairNext ==
    \/ \E c \in Callers, column \in FairColumns : PlaceCall(c, Cookie, column)
    \/ \E c \in Callers : PlaceLock(c)
    \/ \E c \in Callers : PlacePut(c)
    \/ \E c \in Callers : BoardCall(c)
    \/ \E c \in Callers : BoardLock(c)
    \/ \E c \in Callers : ResetCall(c)
    \/ \E c \in Callers : ResetLockBoard(c)
    \/ \E c \in Callers : ResetLockRandom(c)
    \/ \E c \in Callers : ResetBody(c)
    \/ \E c \in Callers : RandomCall(c)
    \/ \E c \in Callers : RandomLock(c)
    \/ \E c \in Callers, fresh \in DrawWindows : RandomBody(c, fresh)

FairSpec == FairInit /\ [][FairNext]_vars /\ Fairness

(* --------------------------- scripted games ---------------------------- *)

\* Whole games played from the state the server is constructed in: the
\* place requests of a script are sent one after the other, each when the
\* one before was answered, while the board may be inspected at any moment
\* by another caller.

\* Cookie and Milk in turn on columns 1 and 2: Cookie fills column 1
WinScript ==
    << <<Cookie, 1>>, <<Milk, 2>>, <<Cookie, 1>>, <<Milk, 2>>,
       <<Cookie, 1>>, <<Milk, 2>>, <<Cookie, 1>> >>

\* five tokens of one team on column 1, which holds four
FillScript(team) == [n \in 1..5 |-> <<team, 1>>]

\* sixteen tokens, the last of which completes row 0 and column 1 at once
DoubleScript ==
    << <<Cookie, 1>>, <<Cookie, 1>>, <<Cookie, 1>>,
       <<Milk, 2>>, <<Milk, 2>>, <<Milk, 2>>, <<Cookie, 2>>,
       <<Milk, 3>>, <<Milk, 3>>, <<Milk, 3>>, <<Cookie, 3>>,
       <<Milk, 4>>, <<Milk, 4>>, <<Milk, 4>>, <<Cookie, 4>>,
       <<Cookie, 1>> >>

Scripts ==
    { WinScript,
      DoubleScript,
      FillScript(Cookie),
      FillScript(Milk),
      << <<Milk, 1>>, <<Milk, 2>>, <<Milk, 3>>, <<Milk, 4>> >>,
      Alternating \o << <<Milk, 1>> >>,
      Alternating \o << <<Cookie, 1>>, <<Milk, 2>>, <<Cookie, 3>>, <<Cookie, 4>> >>,
      Alternating \o << <<Cookie, 1>>, <<Milk, 2>>, <<Cookie, 3>>, <<Milk, 4>> >> }

\* the place requests that continue a script from the board as it is
ScriptMoves ==
    {S[placed + 1] : S \in {T \in Scripts :
        /\ Len(T) > placed
        /\ Replay(BoardNew, SubSeq(T, 1, placed)).tiles = board.tiles}}

\* the calls received that were no placement of a token
OtherCalls ==
    calls - placed - Cardinality({c \in Callers : req[c].op = "place"})

\* a request of a scripted game arrives and is served by caller c
ScriptCan(c) ==
    /\ OtherCalls < MaxOtherCalls
    /\ pc[c] = "idle"
    /\ \A d \in Callers : d < c => pc[d] # "idle"

\* the next place request of a script, sent when no place is in progress
ScriptPlace(c) ==
    /\ ScriptCan(c)
    /\ \A d \in Callers : req[d].op # "place"
    /\ \E move \in ScriptMoves : PlaceStart(c, move[1], move[2])

\* an inspection of the board during a scripted game
ScriptBoard(c) ==
    /\ ScriptCan(c)
    /\ Begin(c, [NoReq EXCEPT !.op = "board"], "board_wait")
    /\ UNCHANGED <<board, random_board, stream, board_lock, random_lock,
                   row, out, placed, lin, db_state, locals, limiter>>

ScriptInit == InitAfter({<<>>})

ScriptNext ==
    \/ \E c \in Callers : ScriptPlace(c)
    \/ \E c \in Callers : PlaceLock(c)
    \/ \E c \in Callers : PlacePut(c)
    \/ \E c \in Callers : ScriptBoard(c)
    \/ \E c \in Callers : BoardLock(c)

ScriptSpec == ScriptInit /\ [][ScriptNext]_vars

(* --------------------- sessions of the random board -------------------- *)

\* Longer runs of random and reset alone, from the state the server is
\* constructed in, to follow the generator over several boards and across
\* a reset.  The draws not yet known are all true, all false, or one of
\* DrawWindows, so that every tile is drawn both ways.
RandomWindows ==
    DrawWindows \cup {[k \in 0..(DrawsPerBoard - 1) |-> v] : v \in BOOLEAN}

\* a request of such a session arrives and is served by caller c
RandomCan(c) ==
    /\ calls < MaxRandomCalls
    /\ pc[c] = "idle"
    /\ \A d \in Callers : d < c => pc[d] # "idle"

\* a random request of the session
SessionRandom(c) ==
    /\ RandomCan(c)
    /\ Begin(c, [NoReq EXCEPT !.op = "random"], "random_wait")
    /\ UNCHANGED <<board, random_board, stream, board_lock, random_lock,
                   row, out, placed, lin, db_state, locals, limiter>>

\* a reset request of the session
SessionReset(c) ==
    /\ RandomCan(c)
    /\ Begin(c, [NoReq EXCEPT !.op = "reset"], "reset_wait_board")
    /\ UNCHANGED <<board, random_board, stream, board_lock, random_lock,
                   row, out, placed, lin, db_state, locals, limiter>>

RandomInit == InitAfter({<<>>})

RandomNext ==
    \/ \E c \in Callers : SessionRandom(c)
    \/ \E c \in Callers : RandomLock(c)
    \/ \E c \in Callers, fresh \in RandomWindows : RandomBody(c, fresh)
    \/ \E c \in Callers : SessionReset(c)
    \/ \E c \in Callers : ResetLockBoard(c)
    \/ \E c \in Callers : ResetLockRandom(c)
    \/ \E c \in Callers : ResetBody(c)

RandomSpec == RandomInit /\ [][RandomNext]_vars

(* ------------------- day 2: address arithmetic (day_2.rs) -------------- *)

\* The four handlers of day 2 take two addresses from the query string and
\* answer a text.  They have no .await: a call is one step.  A text is the
\* sequence of its characters.

\* the largest octet and segment value the sampled inputs step away from
\* the two ends of their range
MaxEdge == 1

\* number of day 2 requests explored
MaxAddressCalls == 2

\* the digits a number is written with
DigitChars ==
    <<"0", "1", "2", "3", "4", "5", "6", "7", "8", "9",
      "a", "b", "c", "d", "e", "f">>

DigitValue(ch) == (CHOOSE n \in 1..16 : DigitChars[n] = ch) - 1

RECURSIVE ToRadix(_, _)
\* the digits of n, most significant first and without leading zeros:
\* u8::to_string in radix 10, the {:x} of a segment in radix 16
ToRadix(n, radix) ==
    IF n < radix THEN <<DigitChars[n + 1]>>
    ELSE ToRadix(n \div radix, radix) \o <<DigitChars[(n % radix) + 1]>>

RECURSIVE FromRadix(_, _)
\* the number a sequence of digits writes
FromRadix(digits, radix) ==
    IF digits = <<>> THEN 0
    ELSE FromRadix(SubSeq(digits, 1, Len(digits) - 1), radix) * radix
         + DigitValue(digits[Len(digits)])

RECURSIVE join(_, _)
\* Vec<String>::join(sep)
join(parts, sep) ==
    IF parts = <<>> THEN <<>>
    ELSE IF Len(parts) = 1 THEN parts[1]
    ELSE parts[1] \o sep \o join(Tail(parts), sep)

RECURSIVE split(_, _)
\* the parts of a text between the occurrences of the character sep
split(text, sep) ==
    IF \A n \in 1..Len(text) : text[n] # sep THEN <<text>>
    ELSE LET at == CHOOSE n \in 1..Len(text) :
                       /\ text[n] = sep
                       /\ \A m \in 1..(n - 1) : text[m] # sep
         IN  <<SubSeq(text, 1, at - 1)>>
             \o split(SubSeq(text, at + 1, Len(text)), sep)

\* u8::wrapping_add that stops at the largest octet
wrapping_add_saturating(f, k) == IF f + k > 255 THEN 255 ELSE f + k

\* u8::wrapping_add
wrapping_add(f, k) == (f + k) % 256

\* u8::wrapping_sub
wrapping_sub(t, f) == (t - f) % 256

\* the text of four octets: each to_string, joined by "."
Dotted(octets) ==
    join([n \in 1..4 |-> ToRadix(octets[n], 10)], <<".">>)

\* dest_v4 (lines 29-38): the octets of from and key added in pairs
dest_v4(from, key) ==
    Dotted([n \in 1..4 |-> wrapping_add(from[n], key[n])])

\* key_v4 (lines 40-49): the octets of from subtracted from those of to
key_v4(from, to) ==
    Dotted([n \in 1..4 |-> wrapping_sub(to[n], from[n])])

\* Query<..> reading an Ipv4Addr field: the octets a dotted text writes
ParseV4(text) ==
    LET parts == split(text, ".")
    IN  [n \in 1..4 |-> FromRadix(parts[n], 10)]

RECURSIVE xor(_, _)
\* wrapping_add in the place of ^
xor_wrapping_add(a, b) == (a + b) % 65536

\* the ^ of two u16, bit by bit
xor(a, b) ==
    IF a = 0 /\ b = 0 THEN 0
    ELSE ((a + b) % 2) + 2 * xor(a \div 2, b \div 2)

\* the length of the run of zero segments that starts at segment start
ZeroRun(segments, start) ==
    CHOOSE len \in 0..(9 - start) :
        /\ \A n \in start..(start + len - 1) : segments[n] = 0
        /\ start + len > 8 \/ segments[start + len] # 0

\* where the first of the longest runs of zero segments starts
LongestZeros(segments) ==
    CHOOSE s \in 1..8 :
        \A t \in 1..8 :
            \/ ZeroRun(segments, t) < ZeroRun(segments, s)
            \/ ZeroRun(segments, t) = ZeroRun(segments, s) /\ s <= t

\* segments in hexadecimal, joined by ":"
fmt_subslice(segments) ==
    join([n \in 1..Len(segments) |-> ToRadix(segments[n], 16)], <<":">>)

\* Ipv6Addr::to_string: an IPv4-mapped address ends in dotted octets, any
\* other has the first of its longest runs of two or more zero segments
\* written "::"
Ipv6ToString(segments) ==
    IF /\ \A n \in 1..5 : segments[n] = 0
       /\ segments[6] = 65535
    THEN <<":", ":", "f", "f", "f", "f", ":">>
         \o Dotted(<<segments[7] \div 256, segments[7] % 256,
                     segments[8] \div 256, segments[8] % 256>>)
    ELSE LET start == LongestZeros(segments)
             len == ZeroRun(segments, start)
         IN  IF len > 1
             THEN fmt_subslice(SubSeq(segments, 1, start - 1))
                  \o <<":", ":">>
                  \o fmt_subslice(SubSeq(segments, start + len, 8))
             ELSE fmt_subslice(segments)

\* dest_v6 (lines 51-62): the segments of from and key combined in pairs
dest_v6(from, key) ==
    Ipv6ToString([n \in 1..8 |-> xor(from[n], key[n])])

\* key_v6 (lines 64-75): the segments of to and from combined in pairs
key_v6(from, to) ==
    Ipv6ToString([n \in 1..8 |-> xor(to[n], from[n])])

RECURSIVE ParseGroups(_)
\* the segments of groups separated by ":"; a dotted last group gives two
ParseGroups(groups) ==
    IF groups = <<>> THEN <<>>
    ELSE LET g == groups[1]
         IN  (IF \E n \in 1..Len(g) : g[n] = "."
              THEN LET o == ParseV4(g)
                   IN  <<o[1] * 256 + o[2], o[3] * 256 + o[4]>>
              ELSE <<FromRadix(g, 16)>>)
             \o ParseGroups(Tail(groups))

\* the segments of a text without "::"
ParsePart(text) == IF text = <<>> THEN <<>> ELSE ParseGroups(split(text, ":"))

\* Query<..> reading an Ipv6Addr field: the segments a text writes
ParseV6(text) ==
    IF \E n \in 1..(Len(text) - 1) : text[n] = ":" /\ text[n + 1] = ":"
    THEN LET at == CHOOSE n \in 1..(Len(text) - 1) :
                       text[n] = ":" /\ text[n + 1] = ":"
             head == ParsePart(SubSeq(text, 1, at - 1))
             tail == ParsePart(SubSeq(text, at + 2, Len(text)))
         IN  head \o [n \in 1..(8 - Len(head) - Len(tail)) |-> 0] \o tail
    ELSE ParsePart(text)

\* octets near the two ends of u8
EdgeOctets == (0..MaxEdge) \cup ((255 - MaxEdge)..255)

\* segments near the two ends of u16
EdgeSegments == (0..MaxEdge) \cup ((65535 - MaxEdge)..65535)

\* the IPv4 addresses sent: one octet of any edge value at any position,
\* the other three all 0 or all 255
InputsV4 ==
    {[n \in 1..4 |-> IF n = p THEN a ELSE b] :
        p \in 1..4, a \in EdgeOctets, b \in {0, 255}}

\* the segments of the k-th rotation of the edge values
Rotation(k) ==
    LET m == Cardinality(EdgeSegments)
        edge(n) == IF n < m \div 2 THEN n ELSE 65535 - (m - 1 - n)
    IN  [n \in 1..8 |-> edge((k + n) % m)]

\* the IPv6 addresses sent: every segment the same edge value, the edge
\* values in rotation, 65535 in one segment alone, and the addresses the
\* tests of lines 100-118 send
InputsV6 ==
    {[n \in 1..8 |-> a] : a \in EdgeSegments}
    \cup {Rotation(k) : k \in 1..Cardinality(EdgeSegments)}
    \cup {[n \in 1..8 |-> IF n = p THEN 65535 ELSE 0] : p \in {1, 6}}
    \cup {<<8193, 3512, 0, 0, 0, 0, 0, 1>>, <<8193, 3512, 0, 0, 0, 0, 0, 2>>}

\* what a client sends to an IPv4 operation: in its first request two of
\* InputsV4; after that, to undo the answer it was given by the operation
\* other, the from of that request with the address the answer wrote
SendsV4(other) ==
    IF calls = 0 THEN InputsV4 \X InputsV4
    ELSE IF out.req.op = other THEN {<<out.req.from, ParseV4(out.body)>>}
    ELSE {}

\* what a client sends to an IPv6 operation, in the same way
SendsV6(other) ==
    IF calls = 0 THEN InputsV6 \X InputsV6
    ELSE IF out.req.op = other THEN {<<out.req.from, ParseV6(out.body)>>}
    ELSE {}

\* a day 2 request arrives and is served by caller c
AddressCan(c) ==
    /\ calls < MaxAddressCalls
    /\ pc[c] = "idle"
    /\ \A d \in Callers : d < c => pc[d] # "idle"

\* a day 2 handler, called with request r, returns the String body; axum
\* answers 200
AddressAnswer(c, r, body) ==
    /\ AddressCan(c)
    /\ calls' = calls + 1
    /\ out' = [req |-> r, status |-> OK, body |-> body]
    /\ UNCHANGED <<board, random_board, stream, board_lock, random_lock,
                   pc, req, row, placed, lin, db_state, locals, limiter>>

\* GET /2/dest?from=..&key=..
DestV4(c, from, key) ==
    AddressAnswer(c, [op |-> "dest_v4", from |-> from, key |-> key],
                  dest_v4(from, key))

\* GET /2/key?from=..&to=..
KeyV4(c, from, to) ==
    AddressAnswer(c, [op |-> "key_v4", from |-> from, to |-> to],
                  key_v4(from, to))

\* GET /2/v6/dest?from=..&key=..
DestV6(c, from, key) ==
    AddressAnswer(c, [op |-> "dest_v6", from |-> from, key |-> key],
                  dest_v6(from, key))

\* GET /2/v6/key?from=..&to=..
KeyV6(c, from, to) ==
    AddressAnswer(c, [op |-> "key_v6", from |-> from, to |-> to],
                  key_v6(from, to))

AddressInit == InitAfter({<<>>})

AddressNext ==
    \/ \E c \in Callers, a \in SendsV4("key_v4") :
           DestV4(c, a[1], a[2])
    \/ \E c \in Callers, a \in SendsV4("dest_v4") :
           KeyV4(c, a[1], a[2])
    \/ \E c \in Callers, a \in SendsV6("key_v6") :
           DestV6(c, a[1], a[2])
    \/ \E c \in Callers, a \in SendsV6("dest_v6") :
           KeyV6(c, a[1], a[2])

AddressSpec == AddressInit /\ [][AddressNext]_vars

(* ------------------- day 5: the manifest handler (day5.rs) ------------- *)

\* An Option is the set of its values: None is {}, Some(v) is {v}.  The
\* three parsers are library code: a body is given by what each of them
\* makes of it, a manifest as written (quantities not yet read as u32) or
\* an error.

\* the largest number of orders in a manifest sent
MaxOrders == 2

\* number of manifest requests explored
MaxManifestCalls == 2

UNSUPPORTED_MEDIA_TYPE == 415

NO_CONTENT == 204

MAGIC_KEYWORD == "Christmas 2024"

\* the texts the handler answers with
InvalidManifest ==
    <<"I", "n", "v", "a", "l", "i", "d", " ",
      "m", "a", "n", "i", "f", "e", "s", "t">>

MagicKeywordNotProvided ==
    <<"M", "a", "g", "i", "c", " ", "k", "e", "y", "w", "o", "r", "d", " ",
      "n", "o", "t", " ", "p", "r", "o", "v", "i", "d", "e", "d">>

\* char::is_whitespace, on the characters the texts here are made of
Whitespace == {" ", "\n", "\t"}

RECURSIVE trim(_)
\* str::trim: the text without its leading and trailing whitespace
trim(text) ==
    IF text = <<>> THEN text
    ELSE IF text[1] \in Whitespace THEN trim(Tail(text))
    ELSE IF text[Len(text)] \in Whitespace
         THEN trim(SubSeq(text, 1, Len(text) - 1))
    ELSE text

\* a parser failed
ParseError == [error |-> TRUE, package |-> {}]

\* Order.quantity (lines 20-22): a u32 when one is written, None when the
\* field is absent (serde default) or is anything else (DefaultOnError);
\* the numbers sent stay below the largest u32
Quantity(written) ==
    IF written.given = "number" /\ written.number >= 0
    THEN {written.number}
    ELSE {}

\* Order (lines 16-23) read from what is written
ReadOrder(written) ==
    [item |-> written.item, quantity |-> Quantity(written.quantity)]

\* Manifest<Metadata> read from what a parser made of the body, .ok()
ReadManifest(parsed) ==
    IF parsed.error THEN {}
    ELSE {[package |->
             {[keywords |-> p.keywords,
               metadata |->
                   {[orders |-> [n \in 1..Len(m.orders) |-> ReadOrder(m.orders[n])]]
                      : m \in p.metadata}]
                : p \in parsed.package}]}

\* the three content types the handler parses (lines 31, 34, 37)
SupportedTypes == {"application/toml", "application/yaml", "application/json"}

\* the match of lines 30-46 without its last arm: the manifest the parser
\* chosen by the Content-Type reads from the body
ParseBody(content_type, body) ==
    IF content_type = "application/toml" THEN ReadManifest(body.toml)
    ELSE IF content_type = "application/yaml" THEN ReadManifest(body.yaml)
    ELSE ReadManifest(body.json)

\* lines 60-64 with unwrap_or(true)
has_magic_keyword_or_none(package) ==
    \A keys \in package.keywords :
        keys.local => \E n \in 1..Len(keys.value) : keys.value[n] = MAGIC_KEYWORD

\* lines 60-64: the keywords are given, are the package's own (as_local)
\* and contain the magic keyword
has_magic_keyword(package) ==
    \E keys \in package.keywords :
        /\ keys.local
        /\ \E n \in 1..Len(keys.value) : keys.value[n] = MAGIC_KEYWORD

RECURSIVE OrderLines(_)
\* lines 77-80: filter_map over the orders, "{item}: {quantity}" for each
\* that has a quantity
OrderLines(orders) ==
    IF orders = <<>> THEN <<>>
    ELSE (IF orders[1].quantity = {} THEN <<>>
          ELSE <<orders[1].item \o <<":", " ">>
                 \o ToRadix(CHOOSE q \in orders[1].quantity : TRUE, 10)>>)
         \o OrderLines(Tail(orders))

\* manifest (lines 28-96): the status and body returned
manifest(headers, body) ==
    IF \/ "Content-Type" \notin DOMAIN headers
       \/ headers["Content-Type"] \notin SupportedTypes
    THEN [status |-> UNSUPPORTED_MEDIA_TYPE, body |-> EmptyBody]
    ELSE LET parsed == ParseBody(headers["Content-Type"], body)
             maybe_package == UNION {m.package : m \in parsed}
         IN  IF maybe_package = {}
             THEN [status |-> BAD_REQUEST, body |-> InvalidManifest]
             ELSE LET package == CHOOSE p \in maybe_package : TRUE
                      response ==
                          {r \in {join(OrderLines(m.orders), <<"\n">>)
                                    : m \in package.metadata} : r # <<>>}
                  IN  IF ~has_magic_keyword(package)
                      THEN [status |-> BAD_REQUEST,
                            body |-> MagicKeywordNotProvided]
                      ELSE IF response # {}
                      THEN [status |-> OK,
                            body |-> trim(CHOOSE r \in response : TRUE)]
                      ELSE [status |-> NO_CONTENT, body |-> EmptyBody]

\* the items written in the orders sent: one begins with a space
Items == {<<"T", "o", "y">>, <<" ", "D", "o", "l", "l">>}

\* the quantities written in the orders sent: none, one that is not a
\* u32, and a u32
Quantities ==
    {[given |-> "absent", number |-> 0],
     [given |-> "number", number |-> -1],
     [given |-> "number", number |-> 5]}

\* the orders written
WrittenOrders == [item : Items, quantity : Quantities]

\* the keywords written: none, inherited from the workspace, without and
\* with the magic keyword
WrittenKeywords ==
    {{}, {[local |-> FALSE, value |-> <<>>]},
     {[local |-> TRUE, value |-> <<"Holiday">>]},
     {[local |-> TRUE, value |-> <<"Holiday", MAGIC_KEYWORD>>]}}

\* the manifests written: without a package, and with one, whose metadata
\* is absent or lists up to MaxOrders orders
WrittenManifests ==
    {[error |-> FALSE, package |-> {}]}
    \cup {[error |-> FALSE, package |-> {[keywords |-> k, metadata |-> m]}] :
            k \in WrittenKeywords,
            m \in {{}} \cup {{[orders |-> o]} :
                      o \in UNION {[1..n -> WrittenOrders] : n \in 0..MaxOrders}}}

\* the bodies sent: a manifest written in TOML, in YAML, or in JSON (which
\* the YAML parser reads as well), and a text none of the parsers reads
Bodies ==
    {[toml |-> ParseError, yaml |-> ParseError, json |-> ParseError]}
    \cup {[toml |-> w, yaml |-> ParseError, json |-> ParseError] : w \in WrittenManifests}
    \cup {[toml |-> ParseError, yaml |-> w, json |-> ParseError] : w \in WrittenManifests}
    \cup {[toml |-> ParseError, yaml |-> w, json |-> w] : w \in WrittenManifests}

\* the header maps sent: without Content-Type, with a supported one, with
\* another
HeaderMaps ==
    {<<>>} \cup {[h \in {"Content-Type"} |-> t] :
                   t \in SupportedTypes \cup {"application/xml"}}

\* a manifest request arrives and is served by caller c
ManifestCan(c) ==
    /\ calls < MaxManifestCalls
    /\ pc[c] = "idle"
    /\ \A d \in Callers : d < c => pc[d] # "idle"

\* what a client sends: in its first request any body; after that the body
\* it sent before, under any headers
SendsBody == IF calls = 0 THEN Bodies ELSE {out.req.body}

\* POST /5/manifest
ManifestCall(c, headers, body) ==
    /\ ManifestCan(c)
    /\ calls' = calls + 1
    /\ LET response == manifest(headers, body)
       IN  out' = [req |-> [op |-> "manifest", headers |-> headers, body |-> body],
                   status |-> response.status, body |-> response.body]
    /\ UNCHANGED <<board, random_board, stream, board_lock, random_lock,
                   pc, req, row, placed, lin, db_state, locals, limiter>>

ManifestInit == InitAfter({<<>>})

ManifestNext ==
    \E c \in Callers, headers \in HeaderMaps, body \in SendsBody :
        ManifestCall(c, headers, body)

ManifestSpec == ManifestInit /\ [][ManifestNext]_vars

(* ---------------- day 16: tokens in a cookie (day_16.rs) --------------- *)

\* The crate jsonwebtoken is library code: a token is given by what the
\* library reads in its three parts, the algorithm its header names (or
\* that the header cannot be read), its claims (or that they cannot be
\* read) and the key its signature was made with (or that it cannot be
\* read).

\* number of day 16 requests explored
MaxTokenCalls == 2

UNAUTHORIZED == 401

INTERNAL_SERVER_ERROR == 500

COOKIE_NAME == "gift"

SUPER_SECRET == "perkele-santa"

\* the key pair of ./day_16/rsa.pem
RSA_PEM == "rsa.pem"

\* a part of a token that cannot be read
Unreadable == "unreadable"

\* a key that is neither the secret nor the pair of rsa.pem
OtherKey == "other key"

\* the algorithms a header names in the tokens sent
Algorithms == {"HS256", "HS384", "RS256", "RS384", "RS512", "ES256"}

\* claims whose exp is in the past
ExpiredClaims == "{\"exp\":0}"

\* the claims of the tokens sent
Claims == {"{\"test\":\"value\"}", ExpiredClaims}

\* the tokens sent
Tokens ==
    [header : {Unreadable} \cup Algorithms,
     payload : {Unreadable} \cup Claims,
     signature : {Unreadable, SUPER_SECRET, RSA_PEM, OtherKey}]

\* Algorithm::family
Family(alg) ==
    IF alg \in {"HS256", "HS384"} THEN "Hmac"
    ELSE IF alg \in {"RS256", "RS384", "RS512"} THEN "Rsa"
    ELSE "Ec"

\* the family of a DecodingKey: from_secret gives an Hmac key, from_rsa_pem
\* an Rsa key
KeyFamily(key) == IF key = SUPER_SECRET THEN "Hmac" ELSE "Rsa"

\* jsonwebtoken::encode with Header::default(): an HS256 token signed with
\* the key
encode(claims, key) ==
    [header |-> "HS256", payload |-> claims, signature |-> key]

\* jsonwebtoken::decode_header: the algorithm of the header, if it reads
decode_header(jwt) == IF jwt.header = Unreadable THEN {} ELSE {jwt.header}

\* jsonwebtoken::decode with no required claims: the claims, or the kind of
\* the error.  The header is read first, then the signature is verified
\* (an Hmac signature is compared as text, an Rsa signature is decoded
\* before it is verified), then the claims are read and exp is validated.
jsonwebtoken_decode(jwt, key, algorithm) ==
    IF KeyFamily(key) # Family(algorithm)
    THEN [ok |-> FALSE, value |-> "InvalidAlgorithm"]
    ELSE IF jwt.header = Unreadable
    THEN [ok |-> FALSE, value |-> "InvalidToken"]
    ELSE IF jwt.header # algorithm
    THEN [ok |-> FALSE, value |-> "InvalidAlgorithm"]
    ELSE IF jwt.signature = Unreadable /\ KeyFamily(key) = "Rsa"
    THEN [ok |-> FALSE, value |-> "Base64"]
    ELSE IF jwt.signature # key
    THEN [ok |-> FALSE, value |-> "InvalidSignature"]
    ELSE IF jwt.payload = Unreadable
    THEN [ok |-> FALSE, value |-> "Json"]
    ELSE IF jwt.payload = ExpiredClaims
    THEN [ok |-> FALSE, value |-> "ExpiredSignature"]
    ELSE [ok |-> TRUE, value |-> jwt.payload]

\* DecodingKey::from_rsa_pem(RSA_PEM): the pem of the repository is a key
\* (the tests of lines 244-273 decode tokens with it)
from_rsa_pem(pem) == {pem}

\* decode_with_algorithm (lines 69-86)
decode_with_algorithm(jwt, decoding_key, algorithm) ==
    LET res == jsonwebtoken_decode(jwt, decoding_key, algorithm)
    IN  IF res.ok THEN [status |-> OK, body |-> res.value]
        ELSE IF res.value = "InvalidSignature"
        THEN [status |-> UNAUTHORIZED, body |-> ""]
        ELSE [status |-> BAD_REQUEST, body |-> ""]

\* wrap (lines 16-31): the cookie set
wrap(body) ==
    [status |-> OK, body |-> "", cookie |-> {encode(body, SUPER_SECRET)}]

\* unwrap that returns what decode_with_algorithm returned
unwrap_as_decoded(jar) ==
    IF COOKIE_NAME \notin DOMAIN jar
    THEN [status |-> BAD_REQUEST, body |-> ""]
    ELSE decode_with_algorithm(jar[COOKIE_NAME], SUPER_SECRET, "HS256")

\* unwrap (lines 33-48)
unwrap(jar) ==
    IF COOKIE_NAME \notin DOMAIN jar
    THEN [status |-> BAD_REQUEST, body |-> ""]
    ELSE LET res == decode_with_algorithm(jar[COOKIE_NAME], SUPER_SECRET, "HS256")
         IN  IF res.status = UNAUTHORIZED
             THEN [res EXCEPT !.status = BAD_REQUEST]
             ELSE res

\* decode (lines 50-67)
decode(jwt) ==
    LET decoding_key == from_rsa_pem(RSA_PEM)
        header == decode_header(jwt)
    IN  IF decoding_key = {}
        THEN [status |-> INTERNAL_SERVER_ERROR, body |-> ""]
        ELSE IF header = {} \/ header \cap {"RS256", "RS384", "RS512"} = {}
        THEN [status |-> BAD_REQUEST, body |-> ""]
        ELSE decode_with_algorithm(jwt, CHOOSE k \in decoding_key : TRUE,
                                   CHOOSE alg \in header : TRUE)

\* the cookie jars sent: empty, with a cookie of another name, with a gift
\* cookie holding any of the tokens
Jars ==
    {<<>>} \cup {[n \in {"sleigh"} |-> t] : t \in {encode("{}", SUPER_SECRET)}}
    \cup {[n \in {COOKIE_NAME} |-> t] : t \in Tokens}

\* a day 16 request arrives and is served by caller c
TokenCan(c) ==
    /\ calls < MaxTokenCalls
    /\ pc[c] = "idle"
    /\ \A d \in Callers : d < c => pc[d] # "idle"

\* a day 16 handler, called with request r, returns response
TokenAnswer(c, r, response) ==
    /\ TokenCan(c)
    /\ calls' = calls + 1
    /\ out' = [req |-> r, status |-> response.status, body |-> response.body,
               cookie |-> IF "cookie" \in DOMAIN response
                          THEN response.cookie ELSE {}]
    /\ UNCHANGED <<board, random_board, stream, board_lock, random_lock,
                   pc, req, row, placed, lin, db_state, locals, limiter>>

\* POST /16/wrap
Wrap(c, body) == TokenAnswer(c, [op |-> "wrap", body |-> body], wrap(body))

\* GET /16/unwrap
Unwrap(c, jar) == TokenAnswer(c, [op |-> "unwrap", jar |-> jar], unwrap(jar))

\* POST /16/decode
Decode(c, jwt) == TokenAnswer(c, [op |-> "decode", jwt |-> jwt], decode(jwt))

TokenInit == InitAfter({<<>>})

\* the claims wrapped are those of the tokens sent
TokenNext ==
    \/ \E c \in Callers, body \in Claims : Wrap(c, body)
    \/ \E c \in Callers, jar \in Jars : Unwrap(c, jar)
    \/ \E c \in Callers, jwt \in Tokens : Decode(c, jwt)

TokenSpec == TokenInit /\ [][TokenNext]_vars

(* ------------------- day 19: the quote list (day_19.rs) ---------------- *)

\* The repository is a database table: it is given by the number of its
\* rows, and a row by its position in the order of created_at.  A token
\* is one of a few names; the generator may draw a name it drew before.
\* draft and reset_quotes do nothing but await the repository once: the
\* call and the repository's answer are one step.

\* the largest number of quotes in the repository
MaxQuotes == 7

\* number of day 19 requests explored
MaxQuoteCalls == 3

PAGE_SIZE == 3

CREATED == 201

NOT_FOUND == 404

\* the strings Alphanumeric.sample_string draws, and clients send
TokenNames == {"t1", "t2", "t3"}

\* total_pages rounding down
total_pages_floor(count) == count \div PAGE_SIZE

\* total_pages (lines 217-222), for a count the repository returned:
\* (count / PAGE_SIZE).ceil()
total_pages(count) ==
    IF count % PAGE_SIZE = 0 THEN count \div PAGE_SIZE
    ELSE count \div PAGE_SIZE + 1

\* QuoteRepository::get_quotes (lines 114-120): ORDER BY created_at OFFSET
\* offset LIMIT limit
get_quotes(quotes, offset, limit) ==
    [n \in 1..(IF quotes - offset > limit THEN limit
               ELSE IF quotes - offset > 0 THEN quotes - offset
               ELSE 0) |-> offset + n]

\* a day 19 request arrives and is served by caller c
QuoteCan(c) ==
    /\ calls < MaxQuoteCalls
    /\ pc[c] = "idle"
    /\ \A d \in Callers : d < c => pc[d] # "idle"

\* GET /19/list or /19/list?token=..: the handler runs to tokens.lock().await
ListCall(c, token) ==
    /\ QuoteCan(c)
    /\ Begin(c, [op |-> "list", token |-> token], "list_wait")
    /\ UNCHANGED <<board, random_board, stream, board_lock, random_lock,
                   row, out, placed, lin, db_state, locals, limiter>>

\* list, lines 176-189: the lock is granted; page 1 without a token, the
\* page of a known token, 400 and the guard dropped for any other
ListLock(c) ==
    /\ pc[c] = "list_wait"
    /\ LockFree(db_state.lock)
    /\ IF req[c].token = {}
       THEN /\ locals' = [locals EXCEPT ![c].page = 1]
            /\ pc' = [pc EXCEPT ![c] = "list_count"]
            /\ db_state' = [db_state EXCEPT !.lock = c]
            /\ UNCHANGED <<req, row, out>>
       ELSE IF req[c].token \subseteq DOMAIN db_state.tokens
       THEN /\ locals' = [locals EXCEPT ![c].page =
                            db_state.tokens[CHOOSE t \in req[c].token : TRUE]]
            /\ pc' = [pc EXCEPT ![c] = "list_count"]
            /\ db_state' = [db_state EXCEPT !.lock = c]
            /\ UNCHANGED <<req, row, out>>
       ELSE /\ Return(c, req[c], BAD_REQUEST, "")
            /\ UNCHANGED <<db_state, locals>>
    /\ UNCHANGED <<board, random_board, stream, board_lock, random_lock,
                   calls, placed, lin, limiter>>

\* list, lines 189-192: count_quotes answers, or fails (500)
ListCount(c, ok) ==
    /\ pc[c] = "list_count"
    /\ IF ok
       THEN /\ locals' = [locals EXCEPT
                            ![c].total_pages = total_pages(db_state.quotes)]
            /\ pc' = [pc EXCEPT ![c] = "list_quotes"]
            /\ UNCHANGED <<req, row, out, db_state>>
       ELSE /\ Return(c, req[c], INTERNAL_SERVER_ERROR, "")
            /\ locals' = [locals EXCEPT ![c] = NoLocals]
            /\ db_state' = [db_state EXCEPT !.lock = NoCaller]
    /\ UNCHANGED <<board, random_board, stream, board_lock, random_lock,
                   calls, placed, lin, limiter>>

\* list, lines 194-215: get_quotes answers, or fails (500); a next token n
\* is drawn and stored when another page follows; the guard is dropped
ListQuotes(c, ok, n) ==
    /\ pc[c] = "list_quotes"
    /\ LET page == locals[c].page
           quotes == get_quotes(db_state.quotes, (page - 1) * PAGE_SIZE, PAGE_SIZE)
       IN  IF ~ok
           THEN /\ Return(c, req[c], INTERNAL_SERVER_ERROR, "")
                /\ db_state' = [db_state EXCEPT !.lock = NoCaller]
           ELSE IF page < locals[c].total_pages
           THEN /\ Return(c, req[c], OK,
                          [quotes |-> quotes, page |-> page, next_token |-> {n}])
                /\ db_state' = [db_state EXCEPT
                                  !.tokens = [t \in DOMAIN @ \cup {n} |->
                                                IF t = n THEN page + 1 ELSE @[t]],
                                  !.lock = NoCaller]
           ELSE /\ Return(c, req[c], OK,
                          [quotes |-> quotes, page |-> page, next_token |-> {}])
                /\ db_state' = [db_state EXCEPT !.lock = NoCaller]
    /\ locals' = [locals EXCEPT ![c] = NoLocals]
    /\ UNCHANGED <<board, random_board, stream, board_lock, random_lock,
                   calls, placed, lin, limiter>>

\* POST /19/draft (lines 140-148): create answers with the new row, or
\* fails (404)
Draft(c, ok) ==
    /\ QuoteCan(c)
    /\ db_state.quotes < MaxQuotes
    /\ calls' = calls + 1
    /\ IF ok
       THEN /\ db_state' = [db_state EXCEPT !.quotes = @ + 1]
            /\ out' = [req |-> [op |-> "draft", token |-> {}],
                       status |-> CREATED, body |-> db_state.quotes + 1]
       ELSE /\ out' = [req |-> [op |-> "draft", token |-> {}],
                       status |-> NOT_FOUND, body |-> ""]
            /\ UNCHANGED db_state
    /\ UNCHANGED <<board, random_board, stream, board_lock, random_lock,
                   pc, req, row, placed, lin, locals, limiter>>

\* reset_quotes emptying the tokens map together with the table
ResetQuotes_clears_tokens(c, ok) ==
    /\ QuoteCan(c)
    /\ calls' = calls + 1
    /\ IF ok
       THEN /\ db_state' = [db_state EXCEPT !.quotes = 0, !.tokens = <<>>]
            /\ out' = [req |-> [op |-> "reset_quotes", token |-> {}],
                       status |-> OK, body |-> ""]
       ELSE /\ out' = [req |-> [op |-> "reset_quotes", token |-> {}],
                       status |-> INTERNAL_SERVER_ERROR, body |-> ""]
            /\ UNCHANGED db_state
    /\ UNCHANGED <<board, random_board, stream, board_lock, random_lock,
                   pc, req, row, placed, lin, locals, limiter>>

\* POST /19/reset (lines 168-173): TRUNCATE answers, or fails (500)
ResetQuotes(c, ok) ==
    /\ QuoteCan(c)
    /\ calls' = calls + 1
    /\ IF ok
       THEN /\ db_state' = [db_state EXCEPT !.quotes = 0]
            /\ out' = [req |-> [op |-> "reset_quotes", token |-> {}],
                       status |-> OK, body |-> ""]
       ELSE /\ out' = [req |-> [op |-> "reset_quotes", token |-> {}],
                       status |-> INTERNAL_SERVER_ERROR, body |-> ""]
            /\ UNCHANGED db_state
    /\ UNCHANGED <<board, random_board, stream, board_lock, random_lock,
                   pc, req, row, placed, lin, locals, limiter>>

\* the server starts on a database that holds any number of quotes
QuoteInit ==
    /\ GameInit({<<>>})
    /\ \E quotes \in 0..MaxQuotes : db_state = DbStateNew(quotes)
    /\ locals = [c \in Callers |-> NoLocals]
    /\ limiter = rate_limiter

QuoteNext ==
    \/ \E c \in Callers, token \in {{}} \cup {{t} : t \in TokenNames} :
           ListCall(c, token)
    \/ \E c \in Callers : ListLock(c)
    \/ \E c \in Callers, ok \in BOOLEAN : ListCount(c, ok)
    \/ \E c \in Callers, ok \in BOOLEAN, n \in TokenNames : ListQuotes(c, ok, n)
    \/ \E c \in Callers, ok \in BOOLEAN : Draft(c, ok)
    \/ \E c \in Callers, ok \in BOOLEAN : ResetQuotes(c, ok)

QuoteSpec == QuoteInit /\ [][QuoteNext]_vars

(* ------------------- day 9: the milk bucket (day_9.rs) ----------------- *)

\* The RateLimiter of leaky_bucket is given by the number of tokens it
\* holds.  try_acquire(1) takes a token when there is one and never waits;
\* the limiter gains REFILL_AMOUNT tokens every REFILL_INTERVAL, up to
\* MAX_TOKENS.  milk has no .await: a call is one step.  A JSON body is the
\* sequence of the members of its object, a member a pair of key and
\* number; amounts are kept in millionths, without the rounding of f32.

\* number of milk requests explored
MaxMilkCalls == 7

TOO_MANY_REQUESTS == 429

NoMilkAvailable == "No milk available\n"

MilkWithdrawn == "Milk withdrawn\n"

\* the variants of enum Milk under rename_all = "snake_case"
MilkUnits == {"liters", "gallons", "litres", "pints"}

\* serde_json::from_slice::<Milk>: an object of one member whose key names
\* a variant; anything else is an error (no value)
from_slice(body) ==
    IF Len(body) = 1 /\ body[1][1] \in MilkUnits
    THEN {[unit |-> body[1][1], value |-> body[1][2] * 1000000]}
    ELSE {}

\* Milk::convert (lines 30-38)
convert(m) ==
    CASE m.unit = "liters" -> [unit |-> "gallons", value |-> (m.value \div 1000000) * 264172]
      [] m.unit = "gallons" -> [unit |-> "liters", value |-> (m.value \div 1000000) * 3785410]
      [] m.unit = "litres" -> [unit |-> "pints", value |-> (m.value \div 1000000) * 1759750]
      [] m.unit = "pints" -> [unit |-> "litres", value |-> (m.value \div 1000000) * 568260]

\* RateLimiter::try_acquire(permits) on a limiter holding tokens
try_acquire(tokens, permits) == tokens >= permits

\* the limiter after one interval
refilled(tokens) ==
    IF tokens + REFILL_AMOUNT > MAX_TOKENS THEN MAX_TOKENS
    ELSE tokens + REFILL_AMOUNT

\* milk, lines 53-71, once a token was taken: the answer for the headers
\* and the body
milk_answer(headers, body) ==
    IF headers # {"application/json"}
    THEN [status |-> OK, body |-> MilkWithdrawn]
    ELSE IF from_slice(body) = {}
    THEN [status |-> BAD_REQUEST, body |-> ""]
    ELSE [status |-> OK, body |-> convert(CHOOSE m \in from_slice(body) : TRUE)]

\* the Content-Type a client sends: none, JSON, or another
MilkHeaders == {{}, {"application/json"}, {"text/plain"}}

\* the bodies a client sends: each unit, an object without members, an
\* unknown key, an object of two members
MilkBodies ==
    {<< <<u, 2>> >> : u \in MilkUnits}
        \cup {<< >>, << <<"cups", 1>> >>, << <<"liters", 1>>, <<"pints", 1>> >>}

\* a milk request arrives and is served by caller c
MilkCan(c) ==
    /\ calls < MaxMilkCalls
    /\ pc[c] = "idle"
    /\ \A d \in Callers : d < c => pc[d] # "idle"

\* milk taking the token only when it answers 200
MilkCall_pays_on_success(c, headers, body) ==
    /\ MilkCan(c)
    /\ calls' = calls + 1
    /\ IF ~try_acquire(limiter, 1)
       THEN /\ out' = [req |-> [op |-> "milk", headers |-> headers, body |-> body],
                       status |-> TOO_MANY_REQUESTS, body |-> NoMilkAvailable]
            /\ UNCHANGED limiter
       ELSE /\ out' = [req |-> [op |-> "milk", headers |-> headers, body |-> body],
                       status |-> milk_answer(headers, body).status,
                       body |-> milk_answer(headers, body).body]
            /\ limiter' = IF milk_answer(headers, body).status = OK
                          THEN limiter - 1 ELSE limiter
    /\ UNCHANGED <<board, random_board, stream, board_lock, random_lock,
                   pc, req, row, placed, lin, db_state, locals>>

\* POST /9/milk (lines 41-72): try_acquire first, 429 without a token
MilkCall(c, headers, body) ==
    /\ MilkCan(c)
    /\ calls' = calls + 1
    /\ IF ~try_acquire(limiter, 1)
       THEN /\ out' = [req |-> [op |-> "milk", headers |-> headers, body |-> body],
                       status |-> TOO_MANY_REQUESTS, body |-> NoMilkAvailable]
            /\ UNCHANGED limiter
       ELSE /\ out' = [req |-> [op |-> "milk", headers |-> headers, body |-> body],
                       status |-> milk_answer(headers, body).status,
                       body |-> milk_answer(headers, body).body]
            /\ limiter' = limiter - 1
    /\ UNCHANGED <<board, random_board, stream, board_lock, random_lock,
                   pc, req, row, placed, lin, db_state, locals>>

\* one REFILL_INTERVAL has passed
Refill ==
    /\ limiter' = refilled(limiter)
    /\ UNCHANGED <<board, random_board, stream, board_lock, random_lock,
                   pc, req, row, out, calls, placed, lin, db_state, locals>>

MilkInit == InitAfter({<<>>})

MilkNext ==
    \/ \E c \in Callers, headers \in MilkHeaders, body \in MilkBodies :
           MilkCall(c, headers, body)
    \/ Refill

MilkSpec == MilkInit /\ [][MilkNext]_vars

(* ------------------------------- claims -------------------------------- *)

\* the tile of a team, as the claims name it
TeamTile(p) == IF p = Cookie THEN TileCookie ELSE TileMilk

\* the result Win(p), as the claims name it
Win(p) == IF p = Cookie THEN WinCookie ELSE WinMilk

\* the rows of a column whose playable tile is Empty
EmptyRows(b, column) == {i \in playable_rows : b.tiles[i][column] = Empty}

\* some playable tile of the column is Empty
ColumnOpen(b, column) == EmptyRows(b, column) # {}

\* the four-tile lines of the playable region: rows, columns, two diagonals
Lines ==
    {{<<i, j>> : j \in 1..4} : i \in 0..3}
    \cup {{<<i, j>> : i \in 0..3} : j \in 1..4}
    \cup {{<<i, 1 + i>> : i \in 0..3}, {<<i, 4 - i>> : i \in 0..3}}

\* some line holds four tiles of team p
HasLine(b, p) ==
    \E line \in Lines : \A cell \in line : b.tiles[cell[1]][cell[2]] = TeamTile(p)

\* no playable tile is Empty
InteriorFull(b) ==
    \A i \in 0..3 : \A j \in 1..4 : b.tiles[i][j] # Empty

\* caller c is granted the lock of the board for its place in this step
PlaceGranted(c) == pc[c] = "place_wait" /\ pc'[c] # "place_wait"

\* caller c puts its token in this step
PlacePuts(c) == pc[c] = "place_locked" /\ pc'[c] # "place_locked"

\* a reset replaces the board in this step
ResetReplaces ==
    \E c \in Callers : pc[c] = "reset_wait_board" /\ pc'[c] = "reset_wait_random"

\* C1: gravity drop.  A place that is granted the lock on a board with no
\* result and a column with an Empty playable tile goes on to put its token;
\* it is answered 200, and the step that puts the token changes exactly the
\* tile (r, column), r the largest row of 0..3 whose tile in the column is
\* Empty (so never row 4), from Empty to the tile of the team.
C1_GravityDrop ==
    [][\A c \in Callers :
        /\ (PlaceGranted(c) /\ board.winner = None
                /\ ColumnOpen(board, req[c].column))
           => /\ pc'[c] = "place_locked"
              /\ row'[c] = SetMax(EmptyRows(board, req[c].column))
              /\ board' = board
        /\ PlacePuts(c)
           => /\ ColumnOpen(board, req[c].column)
              /\ row[c] = SetMax(EmptyRows(board, req[c].column))
              /\ row[c] \in 0..3
              /\ board.tiles[row[c]][req[c].column] = Empty
              /\ board'.tiles = [board.tiles EXCEPT
                                   ![row[c]][req[c].column] = TeamTile(req[c].team)]
              /\ out'.status = OK
              /\ out'.req = req[c]
      ]_vars

\* C1 witness: a place was answered 200 and its token lies on top of another
\* token, with the tile above it (if any) still Empty
C1_Witness ==
    /\ out.req.op = "place"
    /\ out.status = OK
    /\ \E i \in 0..2 :
        /\ board.tiles[i][out.req.column] = TeamTile(out.req.team)
        /\ board.tiles[i + 1][out.req.column] \in TeamTiles
        /\ (i > 0 => board.tiles[i - 1][out.req.column] = Empty)

\* C2: the stored result is Win(p) exactly when a row, a column or a
\* diagonal of the playable region holds four tiles of team p.
C2_WinIffLine ==
    \A p \in Teams : (board.winner = Win(p)) <=> HasLine(board, p)

\* C2 witness: a win on the diagonal (0,4) (1,3) (2,2) (3,1), and on no row
\* or column
C2_Witness ==
    /\ board.winner = Win(Cookie)
    /\ \A i \in 0..3 : board.tiles[i][4 - i] = TileCookie
    /\ ~(\E i \in 0..3 : \A j \in 1..4 : board.tiles[i][j] = TileCookie)
    /\ ~(\E j \in 1..4 : \A i \in 0..3 : board.tiles[i][j] = TileCookie)

\* C3: the stored result is Tie exactly when no playable tile is Empty and no
\* line is held by one team; a full board with a line has a Win.
C3_TieIffFullNoLine ==
    /\ (board.winner = Tie)
         <=> (InteriorFull(board) /\ \A p \in Teams : ~HasLine(board, p))
    /\ (InteriorFull(board) /\ \E p \in Teams : HasLine(board, p))
         => board.winner \in {WinCookie, WinMilk}

\* C3, the other case: the 16th token completed a line and the result is a Win
C3_WitnessWin ==
    /\ InteriorFull(board)
    /\ board.winner \in {WinCookie, WinMilk}
    /\ out.req.op = "place"
    /\ out.status = OK

\* C3 witness: the 16th token completed no line and the result is Tie
C3_Witness ==
    /\ board.winner = Tie
    /\ out.req.op = "place"
    /\ out.status = OK

\* C4: while the result is Win or Tie, a place that is granted the lock is
\* answered 503 and leaves the board as it is, and the only step that
\* changes the board is the one in which a reset replaces it.
C4_TerminalFrozen ==
    [][board.winner # None =>
        /\ \A c \in Callers : PlaceGranted(c)
              => /\ out'.status = SERVICE_UNAVAILABLE
                 /\ out'.req = req[c]
                 /\ pc'[c] = "idle"
                 /\ board' = board
        /\ board' # board => ResetReplaces
        /\ \A c \in Callers : ~PlacePuts(c)
      ]_vars

\* C4 witness: a place on a column with an Empty tile was answered 503
\* because the game had a result
C4_Witness ==
    /\ board.winner # None
    /\ out.req.op = "place"
    /\ out.status = SERVICE_UNAVAILABLE
    /\ ColumnOpen(board, out.req.column)

\* caller c is refused in this step: it is granted the lock with the game
\* over or with no Empty playable tile in its column
PlaceRefused(c) ==
    PlaceGranted(c) /\ (board.winner # None \/ ~ColumnOpen(board, req[c].column))

\* C5: a refused place leaves the tiles and the result as they were and is
\* answered 503 with the rendering of that board; a full column stays full,
\* tile for tile, until a reset, so the same place is refused again, and
\* when nothing changed the board in between the answer is the same.
C5_RejectionUnchanged ==
    [][/\ \A c \in Callers : PlaceRefused(c)
            => /\ board' = board
               /\ out' = [req |-> req[c], status |-> SERVICE_UNAVAILABLE,
                          body |-> BoardToString(board)]
               /\ ((out.req = req[c] /\ out.status = SERVICE_UNAVAILABLE
                      /\ out.body = BoardToString(board)) => out' = out)
       /\ \A j \in 1..4 : (~ColumnOpen(board, j) /\ ~ResetReplaces)
            => \A i \in 0..3 : board'.tiles[i][j] = board.tiles[i][j]
      ]_vars

\* C5 witness: a place on a full column of a game without result was
\* answered 503 with the rendering of the board
C5_Witness ==
    /\ board.winner = None
    /\ out.req.op = "place"
    /\ out.status = SERVICE_UNAVAILABLE
    /\ ~ColumnOpen(board, out.req.column)
    /\ out.body = BoardToString(board)

\* a request is answered in the step that receives it
AnsweredAtOnce == calls' = calls + 1 /\ pc' = pc

\* C6: a place with a column outside 1..4 never asks for the lock; it is
\* answered 400 with an empty body, never 503, in the step that receives it,
\* and that step changes neither board, nor the generator, nor a lock.
C6_BadColumn ==
    /\ [](\A c \in Callers : req[c].op = "place" => req[c].column \in 1..4)
    /\ []((out.req.op = "place" /\ out.req.column \notin 1..4)
            => (out.status = BAD_REQUEST /\ out.body = <<>>))
    /\ []((out.req.op = "place" /\ out.req.column \in 1..4)
            => out.status \in {OK, SERVICE_UNAVAILABLE})
    /\ [][AnsweredAtOnce
            => /\ out'.req.op = "place"
               /\ out'.req.column \notin 1..4
               /\ UNCHANGED <<board, random_board, stream, board_lock, random_lock>>
         ]_vars

\* C6 witness: a place on wall column 5 was answered 400 while the game had
\* a result
C6_Witness ==
    /\ out.req.op = "place"
    /\ out.req.column = 5
    /\ out.status = BAD_REQUEST
    /\ board.winner # None

\* the tiles of a board: walls on row 4 and on columns 0 and 5, and no wall
\* on a playable tile
WellFormed(b) ==
    /\ \A j \in 0..5 : b.tiles[4][j] = Wall
    /\ \A i \in 0..3 : b.tiles[i][0] = Wall /\ b.tiles[i][5] = Wall
    /\ \A i \in 0..3 : \A j \in 1..4 :
          b.tiles[i][j] \in {Empty, TileCookie, TileMilk}

\* C7: on the game board and on the random board, row 4 and columns 0 and 5
\* are Wall and every playable tile is Empty or a team's tile.
C7_Walls == WellFormed(board) /\ WellFormed(random_board.board)

\* C7 witness: the random board has been randomized and the game board has
\* received a token by a place
C7_Witness ==
    /\ random_board.seed > 0
    /\ random_board.board.tiles[0][1] \in TeamTiles
    /\ out.req.op = "place"
    /\ out.status = OK

\* C8: the occupied playable tiles are as many as the places answered 200
\* since the board was last replaced, and every token is put on a tile that
\* is Empty (no token is put where another one lies).
C8_NoLostUpdate ==
    /\ [](Cardinality({<<i, j>> \in (0..3) \X (1..4) :
                          board.tiles[i][j] \in {TileCookie, TileMilk}}) = placed)
    /\ [][\A c \in Callers : PlacePuts(c)
            => /\ board.tiles[row[c]][req[c].column] = Empty
               /\ board_lock = c
         ]_vars

\* C8 witness: a place on a column was answered 200 while another place on
\* the same column waits for the lock
C8_Witness ==
    /\ out.req.op = "place"
    /\ out.status = OK
    /\ \E c \in Callers :
          pc[c] = "place_wait" /\ req[c].column = out.req.column

\* C9: every answer is the answer the call gives when the calls run one at a
\* time in the order in which they were granted their locks, and whenever a
\* lock is free the object behind it is the one that sequential run leaves.
C9_Serializable ==
    /\ out.status = lin.last.status
    /\ out.body = lin.last.body
    /\ board_lock = NoCaller => board = lin.board
    /\ random_lock = NoCaller
         => /\ random_board.seed = lin.seed
            /\ random_board.board =
                 IF lin.drawn THEN RandomBoardAt(stream, lin.seed - DrawsPerBoard)
                 ELSE BoardNew

\* C9 witness: a reset has been answered while a place is waiting for the
\* lock of the board
C9_Witness ==
    /\ out.req.op = "reset"
    /\ \E c \in Callers : pc[c] = "place_wait"

\* the lock a caller is waiting for
Awaits(c) ==
    CASE pc[c] \in {"place_wait", "board_wait", "reset_wait_board"} -> "board"
      [] pc[c] \in {"reset_wait_random", "random_wait"} -> "random"
      [] OTHER -> "none"

\* caller c waits for a lock that caller d holds
WaitsFor(c, d) ==
    \/ Awaits(c) = "board" /\ board_lock = d
    \/ Awaits(c) = "random" /\ random_lock = d

\* no set of callers each waits for a lock held by one of the set
NoWaitCycle ==
    \A S \in SUBSET Callers :
        S # {} => \E c \in S : \A d \in S : ~WaitsFor(c, d)

\* a call has been received and not answered
Busy(c) == pc[c] # "idle"

\* C10: no set of callers waits in a circle, and with the locks granted
\* fairly every call received is answered.
C10_DeadlockFree ==
    /\ []NoWaitCycle
    /\ \A c \in Callers : Busy(c) ~> ~Busy(c)

\* C10 witness: a reset holds the lock of the board and waits for the lock
\* of the random board, which a random call holds
C10_Witness ==
    \E c, d \in Callers :
        /\ pc[c] = "reset_wait_random"
        /\ board_lock = c
        /\ pc[d] = "random_locked"
        /\ random_lock = d

\* caller c holds the lock of the board and the lock of the random board
HoldsBoth(c) == board_lock = c /\ random_lock = c

\* C11 as stated: no caller holds the lock of the board and the lock of the
\* random board at the same time.
C11_Original == \A c \in Callers : ~HoldsBoth(c)

\* C11: place, board and random hold one lock only, the lock of the object
\* they work on; the only caller that holds both locks is a reset, which
\* took the lock of the board first.
C11_OneLockExceptReset ==
    \A c \in Callers :
        /\ HoldsBoth(c) => req[c].op = "reset"
        /\ req[c].op \in {"place", "board"} => random_lock # c
        /\ req[c].op = "random" => board_lock # c
        /\ (req[c].op = "reset" /\ random_lock = c) => board_lock = c

\* C11 witness: a reset holds both locks while a place holds none and waits
C11_Witness ==
    \E c, d \in Callers :
        /\ req[c].op = "reset"
        /\ HoldsBoth(c)
        /\ pc[d] = "place_wait"

\* caller c returns from reset in this step
ResetReturns(c) == pc[c] = "reset_locked" /\ pc'[c] = "idle"

\* C12: when a reset returns, every playable tile of the game board is
\* Empty, the result is None, a place of either team on any column 1..4
\* would be answered 200, no lock is left to the caller, and the random
\* session is the one RandomBoard::new builds: the generator at the start
\* of its sequence.  The answer is 200 with the rendering of the empty board.
C12_ResetFresh ==
    [][\A c \in Callers : ResetReturns(c)
         => /\ \A i \in 0..3 : \A j \in 1..4 : board'.tiles[i][j] = Empty
            /\ board'.winner = None
            /\ \A team \in Teams : \A column \in 1..4 :
                  PlaceAnswer(board', team, column).status = OK
            /\ random_board'.seed = 0
            /\ random_board' = RandomBoardNew
            /\ board_lock' # c /\ random_lock' # c
            /\ out' = [req |-> req[c], status |-> OK,
                       body |-> BoardToString(BoardNew)]
      ]_vars

\* C12 witness: a reset has returned after the generator had been drawn
\* from, and the generator is back at the start of its sequence
C12_Witness ==
    /\ out.req.op = "reset"
    /\ out.status = OK
    /\ Len(stream) > 0
    /\ random_board.seed = 0
    /\ board = BoardNew

\* the tiles after the first k placements of WinScript, written out: the
\* Cookie tokens stacked on column 1, the Milk tokens on column 2
WinScriptTiles(k) ==
    [i \in Rows |-> [j \in Cols |->
        IF IsWallCell(i, j) THEN Wall
        ELSE IF j = 1 /\ i >= 4 - ((k + 1) \div 2) THEN TileCookie
        ELSE IF j = 2 /\ i >= 4 - (k \div 2) THEN TileMilk
        ELSE Empty]]

\* caller c is answered in this step by place or by board with a rendering
Observes(c) ==
    /\ pc[c] # "idle"
    /\ pc'[c] = "idle"
    /\ req[c].op \in {"place", "board"}

\* C13: the result is stored in the step that puts the token.  After the
\* first k placements of Cookie@1, Milk@2, Cookie@1, ... from the empty
\* board the result is None for k < 7 and Win(Cookie) for k = 7, and the
\* answer to the seventh carries the line of the winner while the answers
\* to the first six carry none; in no state does the board hold a line with
\* result None, and every rendering answered by place or board that shows
\* a line ends with the line of that winner.
C13_WinAtOnce ==
    /\ [](\A k \in 0..7 : board.tiles = WinScriptTiles(k)
            => board.winner = IF k = 7 THEN WinCookie ELSE None)
    /\ [](\A p \in Teams : HasLine(board, p) => board.winner = Win(p))
    /\ [][\A c \in Callers : Observes(c)
            => /\ out'.body = BoardToString(board')
               /\ \A p \in Teams : HasLine(board', p)
                     => /\ Len(out'.body) = ROWS + 1
                        /\ out'.body[ROWS + 1] = WinnerDisplay(Win(p))
               /\ \A k \in 1..7 :
                     (PlacePuts(c) /\ board.tiles = WinScriptTiles(k - 1)
                        /\ req[c] = [op |-> "place", team |-> WinScript[k][1],
                                     column |-> WinScript[k][2]])
                     => /\ board'.tiles = WinScriptTiles(k)
                        /\ out'.status = OK
                        /\ Len(out'.body) = IF k = 7 THEN ROWS + 1 ELSE ROWS
         ]_vars

\* C13 witness: the seventh placement of WinScript was answered 200 with
\* the line of the winner Cookie
C13_Witness ==
    /\ board.tiles = WinScriptTiles(7)
    /\ out.req = [op |-> "place", team |-> Cookie, column |-> 1]
    /\ out.status = OK
    /\ Len(out.body) = ROWS + 1
    /\ out.body[ROWS + 1] = WinnerDisplay(WinCookie)

\* the tiles after k tokens of one team on column 1 of the empty board,
\* written out: the k lowest playable rows of the column
FillTiles(team, k) ==
    [i \in Rows |-> [j \in Cols |->
        IF IsWallCell(i, j) THEN Wall
        ELSE IF j = 1 /\ i >= 4 - k THEN TeamTile(team)
        ELSE Empty]]

\* C14: from the empty board, the k-th of four placements of one team on
\* column 1 is answered 200 and puts its token on row 4 - k (rows 3, 2, 1,
\* 0 in that order), and a fifth one is answered 503 with the rendering of
\* the board, which it leaves as it is.
C14_FillColumn ==
    [][\A c \in Callers : \A team \in Teams :
         req[c] = [op |-> "place", team |-> team, column |-> 1]
         => /\ \A k \in 1..4 :
                  (PlacePuts(c) /\ board.tiles = FillTiles(team, k - 1))
                  => /\ row[c] = 4 - k
                     /\ board'.tiles = FillTiles(team, k)
                     /\ out'.status = OK
                     /\ out'.req = req[c]
            /\ \A k \in 0..3 :
                  (PlaceGranted(c) /\ board.tiles = FillTiles(team, k))
                  => pc'[c] = "place_locked" /\ board' = board
            /\ (PlaceGranted(c) /\ board.tiles = FillTiles(team, 4))
                  => /\ board' = board
                     /\ pc'[c] = "idle"
                     /\ out' = [req |-> req[c], status |-> SERVICE_UNAVAILABLE,
                                body |-> BoardToString(board)]
      ]_vars

\* C14 witness: the fifth placement of Milk on column 1 was answered 503,
\* the four tokens before it lying on rows 3, 2, 1, 0
C14_Witness ==
    /\ board.tiles = FillTiles(Milk, 4)
    /\ placed = 4
    /\ out.req = [op |-> "place", team |-> Milk, column |-> 1]
    /\ out.status = SERVICE_UNAVAILABLE
    /\ out.body = BoardToString(board)

\* line holds no token, or holds tokens and Empty tiles
AllEmpty(b, line) == \A cell \in line : b.tiles[cell[1]][cell[2]] = Empty

Mixed(b, line) ==
    /\ \E cell \in line : b.tiles[cell[1]][cell[2]] = Empty
    /\ \E cell \in line : b.tiles[cell[1]][cell[2]] \in TeamTiles

\* C15: a line that is all Empty or that mixes Empty tiles with tokens gives
\* no Win.  While no line is held by one team the result is None, or Tie
\* when no playable tile is Empty; a Win is stored only with a line of four
\* tokens of the winner; the board Board::new builds has result None.
C15_NoWinFromEmpty ==
    /\ (\A p \in Teams : ~HasLine(board, p))
          => board.winner = IF InteriorFull(board) THEN Tie ELSE None
    /\ \A p \in Teams : board.winner = Win(p)
          => \E line \in Lines :
                /\ ~AllEmpty(board, line) /\ ~Mixed(board, line)
                /\ \A cell \in line : board.tiles[cell[1]][cell[2]] = TeamTile(p)
    /\ (\A line \in Lines : AllEmpty(board, line)) => board.winner = None

\* C15 witness: a place was answered 200 on a board that has a line all
\* Empty and a line of three tokens of one team and one Empty tile, and the
\* result is None
C15_Witness ==
    /\ out.req.op = "place"
    /\ out.status = OK
    /\ board.winner = None
    /\ \E line \in Lines : AllEmpty(board, line)
    /\ \E line \in Lines : \E p \in Teams :
          Cardinality({cell \in line : board.tiles[cell[1]][cell[2]] = TeamTile(p)}) = 3
          /\ Mixed(board, line)

\* the tiles of the two diagonals of the playable region
Diagonals(b) ==
    {[i \in 0..3 |-> b.tiles[i][1 + i]], [i \in 0..3 |-> b.tiles[i][4 - i]]}

\* the diagonals winner_on_diagonal hands to Winner::from: four equal tiles,
\* the first not Empty
Converted(b) ==
    {d \in Diagonals(b) : (\A i \in 0..3 : d[i] = d[0]) /\ d[0] # Empty}

\* C16: unreachable!() is never executed.  No handler panics, no result is
\* the outcome of the fatal branch, and whenever a place runs set_winner on
\* the board with its token, every diagonal that winner_on_diagonal
\* converts to a winner starts with a tile of Cookie or of Milk.
C16_NeverUnreachable ==
    /\ [](\A c \in Callers : pc[c] # "panicked")
    /\ [](board.winner # Unreachable /\ lin.board.winner # Unreachable)
    /\ [][\A c \in Callers : PlacePuts(c)
            => LET b == place_team(board, req[c].team, row[c], req[c].column)
               IN  /\ winner_on_diagonal(b) # Unreachable
                   /\ \A d \in Converted(b) : d[0] \in {TileCookie, TileMilk}
         ]_vars

\* C16 witness: a place completed the diagonal (0,1) (1,2) (2,3) (3,4) for
\* Milk, with no row or column complete, and was answered 200: the
\* conversion ran on a tile of Milk
C16_Witness ==
    /\ out.req.op = "place"
    /\ out.status = OK
    /\ board.winner = WinMilk
    /\ \A i \in 0..3 : board.tiles[i][1 + i] = TileMilk
    /\ winner_on_row(board) = None
    /\ winner_on_column(board) = None

RowLines == {{<<i, j>> : j \in 1..4} : i \in 0..3}

ColumnLines == {{<<i, j>> : i \in 0..3} : j \in 1..4}

DiagonalLines == {{<<i, 1 + i>> : i \in 0..3}, {<<i, 4 - i>> : i \in 0..3}}

\* the teams that hold one of the lines with four tokens
LineTeams(b, lines) ==
    {p \in Teams : \E line \in lines :
        \A cell \in line : b.tiles[cell[1]][cell[2]] = TeamTile(p)}

\* the result by the order row, column, diagonal, tie
Attributed(b) ==
    IF LineTeams(b, RowLines) # {}
    THEN Win(CHOOSE p \in LineTeams(b, RowLines) : TRUE)
    ELSE IF LineTeams(b, ColumnLines) # {}
    THEN Win(CHOOSE p \in LineTeams(b, ColumnLines) : TRUE)
    ELSE IF LineTeams(b, DiagonalLines) # {}
    THEN Win(CHOOSE p \in LineTeams(b, DiagonalLines) : TRUE)
    ELSE IF InteriorFull(b) THEN Tie
    ELSE None

\* C17: the result is the one the first satisfied check of row, column,
\* diagonal, tie gives; it is a function of the tiles; and the lines
\* that are complete on a board all belong to one team, so a board with a
\* complete row and a complete column has one winner, the row's.
C17_Attribution ==
    /\ board.winner = Attributed(board)
    /\ Cardinality(LineTeams(board, Lines)) <= 1
    /\ \A p \in Teams : p \in LineTeams(board, RowLines) => board.winner = Win(p)

\* C17 witness: the sixteenth token completed row 0 and column 1 at once
\* and the result is the Win of the team of the row
C17_Witness ==
    /\ out.req.op = "place"
    /\ out.status = OK
    /\ Cookie \in LineTeams(board, RowLines)
    /\ Cookie \in LineTeams(board, ColumnLines)
    /\ InteriorFull(board)
    /\ board.winner = WinCookie

\* caller c returns from random in this step
RandomReturns(c) == pc[c] = "random_locked" /\ pc'[c] = "idle"

\* the playable tiles of a board that are Empty
EmptyTiles(b) ==
    {<<i, j>> \in (0..3) \X (1..4) : b.tiles[i][j] = Empty}

\* C18: when a random call returns, every playable tile of the random board
\* is Cookie's or Milk's and none is Empty, whatever was drawn, and the
\* answer is the rendering of that board; the random board stays so until
\* a reset replaces it.
C18_RandomFull ==
    /\ [][\A c \in Callers : RandomReturns(c)
            => /\ \A i \in 0..3 : \A j \in 1..4 :
                     random_board'.board.tiles[i][j] \in {TileCookie, TileMilk}
               /\ EmptyTiles(random_board'.board) = {}
               /\ out' = [req |-> req[c], status |-> OK,
                          body |-> BoardToString(random_board'.board)]
         ]_vars
    /\ [](random_board.seed > 0 => EmptyTiles(random_board.board) = {})

\* C18 witness: the second random call in a row has returned a board made
\* of false draws only, the first one having returned a board of both teams
C18_Witness ==
    /\ out.req.op = "random"
    /\ out.status = OK
    /\ random_board.seed = 2 * DrawsPerBoard
    /\ \A i \in 0..3 : \A j \in 1..4 : random_board.board.tiles[i][j] = TileMilk
    /\ \E n, m \in 1..DrawsPerBoard : stream[n] /\ ~stream[m]

\* caller c takes a step of handler op: a request of c for op is received,
\* or the handler of c moves on
StepOf(c, op) ==
    /\ pc'[c] # pc[c]
    /\ \/ req[c].op = op
       \/ req[c].op = "none" /\ req'[c].op = op

\* C19: the game and the random session are independent.  No step of a
\* random call changes the game board, its result or its lock; no step of
\* a place or of a board call, answered 400 or not, changes the random
\* board, the generator or their lock; and every answer of place or board
\* is the one given by the game board of the run in which only the place
\* and reset calls are executed, one at a time, which no random call changes.
C19_Independent ==
    [][/\ \A c \in Callers : StepOf(c, "random")
            => /\ board' = board
               /\ board_lock' = board_lock
               /\ placed' = placed
               /\ lin'.board = lin.board
       /\ \A c \in Callers : (StepOf(c, "place") \/ StepOf(c, "board"))
            => /\ random_board' = random_board
               /\ stream' = stream
               /\ random_lock' = random_lock
               /\ lin'.seed = lin.seed
       /\ AnsweredAtOnce
            => UNCHANGED <<board, random_board, stream, board_lock, random_lock>>
       /\ \A c \in Callers : Observes(c)
            => /\ out'.body = BoardToString(lin'.board)
               /\ out'.status = lin'.last.status
      ]_vars

\* C19 witness: a place was answered 200 and put its token while a random
\* call holds the lock of the random board, on which it has not drawn yet
C19_Witness ==
    /\ out.req.op = "place"
    /\ out.status = OK
    /\ \E d \in Callers : pc[d] = "random_locked" /\ random_lock = d
    /\ random_board = RandomBoardNew
    /\ board # BoardNew

\* the tile drawn for playable tile (i, j) by the k-th randomize_board
\* since the generator was created (k = 1, 2, ...), seq being the
\* generator's sequence: draw number 16 (k - 1) + 4 i + j of the sequence
KthTile(seq, k, i, j) ==
    IF seq[16 * (k - 1) + 4 * i + j] THEN TileCookie ELSE TileMilk

\* C20: the generator's sequence is one sequence, never changed where it
\* is known; the generator is at a multiple of 16 draws; each random call
\* advances it by 16 and returns, as the k-th board since the generator
\* was created, the tiles of draws 16 (k - 1) + 1 .. 16 k in row-major
\* order of the playable tiles; a reset puts it back at 0, so the k-th
\* board after a reset is the k-th board after the start; nothing else
\* moves the generator.
C20_Deterministic ==
    /\ [](/\ random_board.seed % 16 = 0
          /\ random_board.seed <= Len(stream))
    /\ [][/\ Len(stream') >= Len(stream)
          /\ \A n \in 1..Len(stream) : stream'[n] = stream[n]
          /\ \A c \in Callers : RandomReturns(c)
               => LET k == (random_board.seed \div 16) + 1
                  IN  /\ random_board'.seed = 16 * k
                      /\ \A i \in 0..3 : \A j \in 1..4 :
                            random_board'.board.tiles[i][j] = KthTile(stream', k, i, j)
                      /\ out'.body = BoardToString(random_board'.board)
          /\ \A c \in Callers : ResetReturns(c) => (random_board'.seed = 0)
          /\ (random_board'.seed # random_board.seed)
               => (\E c \in Callers : RandomReturns(c) \/ ResetReturns(c))
         ]_vars

\* C20 witness: two random calls, a reset and a random call have been
\* answered, in that order; the last answer is the first board again, and
\* the second board differs from it
C20_Witness ==
    /\ calls = 4
    /\ \A c \in Callers : pc[c] = "idle"
    /\ Len(stream) = 2 * DrawsPerBoard
    /\ random_board.seed = DrawsPerBoard
    /\ out.req.op = "random"
    /\ \A i \in 0..3 : \A j \in 1..4 :
          random_board.board.tiles[i][j] = KthTile(stream, 1, i, j)
    /\ \E i \in 0..3 : \E j \in 1..4 :
          KthTile(stream, 1, i, j) # KthTile(stream, 2, i, j)

\* C21: inspect is read-only.  No step of a board call changes a tile of
\* the game board, its result, the random board, the generator or a lock;
\* its answer is 200 with the rendering of the board as it is, so an
\* inspect that follows another one on a board that has not changed
\* returns the same rendering.
C21_InspectReadOnly ==
    [][\A c \in Callers : StepOf(c, "board")
         => /\ board' = board
            /\ random_board' = random_board
            /\ stream' = stream
            /\ placed' = placed
            /\ board_lock' = board_lock
            /\ random_lock' = random_lock
            /\ pc'[c] = "idle"
                 => /\ out' = [req |-> req[c], status |-> OK,
                               body |-> BoardToString(board)]
                    /\ (out.req.op = "board" /\ out.body = BoardToString(board))
                         => out'.body = out.body
      ]_vars

\* C21 witness: the two first calls of a game were inspects, both are
\* answered, no token was put, and the board is the empty board the last
\* answer renders
C21_Witness ==
    /\ calls = 2
    /\ placed = 0
    /\ \A c \in Callers : pc[c] = "idle"
    /\ out.req.op = "board"
    /\ out.status = OK
    /\ board = BoardNew
    /\ out.body = BoardToString(BoardNew)

\* caller c is answered in this step by place, board or reset with a
\* rendering of the game board
Renders(c) ==
    /\ pc[c] # "idle"
    /\ pc'[c] = "idle"
    /\ req[c].op \in {"place", "board", "reset"}

\* C22: a rendering answered by place, board or reset is the five lines of
\* tiles followed by one more line exactly when the result is not None at
\* that moment: the tile of the winner and " wins!" for a Win, "No winner."
\* for a Tie.  So a 503 for a game that is over carries the line and a 503
\* for a full column of a game that goes on does not.
C22_ResultLine ==
    [][\A c \in Callers : Renders(c)
         => /\ Len(out'.body) = IF board'.winner # None THEN ROWS + 1 ELSE ROWS
            /\ \A n \in 1..ROWS :
                  out'.body[n] = JoinRow(board'.tiles[n - 1], COLUMNS - 1)
            /\ \A p \in Teams : board'.winner = Win(p)
                  => out'.body[ROWS + 1] = TileDisplay(TeamTile(p)) \o " wins!"
            /\ board'.winner = Tie => out'.body[ROWS + 1] = "No winner."
            /\ (out'.status = SERVICE_UNAVAILABLE /\ board.winner # None)
                  => Len(out'.body) = ROWS + 1
            /\ (out'.status = SERVICE_UNAVAILABLE /\ board.winner = None)
                  => /\ ~ColumnOpen(board, req[c].column)
                     /\ Len(out'.body) = ROWS
      ]_vars

\* C22 witness: a place on a tied game was answered 503 with the line
\* "No winner." after the five lines of tiles
C22_Witness ==
    /\ out.req.op = "place"
    /\ out.status = SERVICE_UNAVAILABLE
    /\ board.winner = Tie
    /\ Len(out.body) = ROWS + 1
    /\ out.body[ROWS + 1] = "No winner."

\* C22, the other 503: a place on a full column of a game without result
\* was answered 503 with the five lines of tiles only
C22_WitnessLive ==
    /\ out.req.op = "place"
    /\ out.status = SERVICE_UNAVAILABLE
    /\ board.winner = None
    /\ Len(out.body) = ROWS

\* the value of an octet sum or difference brought back into 0..255
Wrapped(n) == IF n > 255 THEN n - 256 ELSE IF n < 0 THEN n + 256 ELSE n

\* the text of the address whose four octets are all v
AllOctets(v) == [n \in 1..4 |-> v]

\* bit i of x
Bit(x, i) == (x \div (2 ^ i)) % 2

\* r is the exclusive or of a and b: a u16 that has exactly the bits in
\* which a and b differ
IsXor(r, a, b) ==
    /\ r \in 0..65535
    /\ \A i \in 0..15 : (Bit(r, i) = 1) <=> (Bit(a, i) # Bit(b, i))

\* C23: the IPv4 handlers wrap in every octet and undo each other: a dest
\* answer (always 200) writes, at each of the four positions, from + key
\* brought back into 0..255, a key answer writes to - from brought back
\* into 0..255, and a key request that sends the from of the last dest
\* request with the address its answer wrote is answered with the key of
\* that dest request; 255 + 255 is written 254 and 254 - 255 is written 255.
C23_WrapRoundTrip ==
    [][/\ out'.req.op = "dest_v4"
          => /\ out'.status = OK
             /\ LET written == ParseV4(out'.body)
                IN  \A n \in 1..4 :
                        written[n] = Wrapped(out'.req.from[n] + out'.req.key[n])
             /\ (out'.req.from = AllOctets(255) /\ out'.req.key = AllOctets(255))
                    => out'.body = <<"2", "5", "4", ".", "2", "5", "4", ".",
                                     "2", "5", "4", ".", "2", "5", "4">>
       /\ out'.req.op = "key_v4"
          => /\ out'.status = OK
             /\ LET written == ParseV4(out'.body)
                IN  \A n \in 1..4 :
                        written[n] = Wrapped(out'.req.to[n] - out'.req.from[n])
             /\ (out'.req.from = AllOctets(255) /\ out'.req.to = AllOctets(254))
                    => out'.body = <<"2", "5", "5", ".", "2", "5", "5", ".",
                                     "2", "5", "5", ".", "2", "5", "5">>
       /\ (/\ out.req.op = "dest_v4"
           /\ out'.req.op = "key_v4"
           /\ calls' = calls + 1
           /\ out'.req.from = out.req.from
           /\ out'.req.to = ParseV4(out.body))
          => ParseV4(out'.body) = out.req.key
      ]_vars

\* 254.254.254.254, the answer to 255.255.255.255 + 255.255.255.255, was
\* sent back with the same from and answered 255.255.255.255
C23_Witness ==
    /\ calls = 2
    /\ out.req.op = "key_v4"
    /\ out.req.from = AllOctets(255)
    /\ out.req.to = AllOctets(254)
    /\ out.status = OK
    /\ ParseV4(out.body) = AllOctets(255)

\* C24: the IPv6 handlers combine by exclusive or in every segment and undo
\* each other: a dest answer writes, at each of the eight positions, the
\* u16 with exactly the bits in which from and key differ, a key answer the
\* same of to and from, a key request that sends the from of the last dest
\* request with the address its answer wrote is answered with the key of
\* that dest request, and an address combined with itself is answered "::",
\* the all-zero address.
C24_XorInverse ==
    [][/\ out'.req.op = "dest_v6"
          => /\ out'.status = OK
             /\ LET written == ParseV6(out'.body)
                IN  \A n \in 1..8 :
                        IsXor(written[n], out'.req.from[n], out'.req.key[n])
             /\ out'.req.from = out'.req.key
                    => /\ out'.body = <<":", ":">>
                       /\ ParseV6(out'.body) = [n \in 1..8 |-> 0]
       /\ out'.req.op = "key_v6"
          => /\ out'.status = OK
             /\ LET written == ParseV6(out'.body)
                IN  \A n \in 1..8 :
                        IsXor(written[n], out'.req.to[n], out'.req.from[n])
             /\ out'.req.from = out'.req.to
                    => /\ out'.body = <<":", ":">>
                       /\ ParseV6(out'.body) = [n \in 1..8 |-> 0]
       /\ (/\ out.req.op = "dest_v6"
           /\ out'.req.op = "key_v6"
           /\ calls' = calls + 1
           /\ out'.req.from = out.req.from
           /\ out'.req.to = ParseV6(out.body))
          => ParseV6(out'.body) = out.req.key
      ]_vars

\* dffe:f247:ffff:ffff:ffff:ffff:ffff:fffe, the answer to ffff:..:ffff
\* combined with 2001:db8::1, was sent back with the same from and
\* answered 2001:db8::1
C24_Witness ==
    /\ calls = 2
    /\ out.req.op = "key_v6"
    /\ out.req.from = [n \in 1..8 |-> 65535]
    /\ out.req.to = <<57342, 62023, 65535, 65535, 65535, 65535, 65535, 65534>>
    /\ out.status = OK
    /\ out.body = <<"2", "0", "0", "1", ":", "d", "b", "8", ":", ":", "1">>

\* an address combined with itself was answered "::"
C24_WitnessSelf ==
    /\ out.req.op = "dest_v6"
    /\ out.req.from = [n \in 1..8 |-> 65535]
    /\ out.req.key = out.req.from
    /\ out.body = <<":", ":">>

\* the Content-Type of a manifest request is one of the three supported
Supported(r) ==
    /\ "Content-Type" \in DOMAIN r.headers
    /\ r.headers["Content-Type"]
           \in {"application/toml", "application/yaml", "application/json"}

\* what the parser named by the Content-Type of a manifest request makes
\* of its body
Written(r) ==
    IF r.headers["Content-Type"] = "application/toml" THEN r.body.toml
    ELSE IF r.headers["Content-Type"] = "application/yaml" THEN r.body.yaml
    ELSE r.body.json

\* the orders written in a package, none when it has no metadata
OrdersOf(p) == IF p.metadata = {} THEN <<>> ELSE (CHOOSE m \in p.metadata : TRUE).orders

\* an order as written has a valid quantity
ValidOrder(o) == o.quantity.given = "number" /\ o.quantity.number >= 0

\* the "item: quantity" lines of the orders with a valid quantity, in
\* input order
ValidLines(p) ==
    LET valid == SelectSeq(OrdersOf(p), ValidOrder)
    IN  [n \in 1..Len(valid) |->
            valid[n].item \o <<":", " ">> \o ToRadix(valid[n].quantity.number, 10)]

\* the keywords of a package are its own and list "Christmas 2024"
ListsMagic(p) ==
    \E k \in p.keywords :
        k.local /\ \E n \in 1..Len(k.value) : k.value[n] = "Christmas 2024"

\* the outcome of a manifest request in the precedence of the claim; Body
\* is what a 200 must write for the given lines
Precedence(Body(_)) ==
    out.req.op = "manifest"
    => IF ~Supported(out.req) THEN out.status = 415
       ELSE IF Written(out.req).error \/ Written(out.req).package = {}
       THEN out.status = 400
       ELSE LET p == CHOOSE p \in Written(out.req).package : TRUE
            IN  IF ~ListsMagic(p) THEN out.status = 400
                ELSE IF ValidLines(p) = <<>> THEN out.status = 204
                ELSE out.status = 200 /\ Body(ValidLines(p))

\* the body is exactly the lines
AsWritten(lines) == split(out.body, "\n") = lines

\* the body is the lines joined by newlines, then trimmed
Trimmed(lines) ==
    /\ out.body = trim(join(lines, <<"\n">>))
    /\ Len(split(out.body, "\n")) = Len(lines)

\* C25 (as stated): 415 for a missing or unsupported Content-Type whatever
\* the body, else 400 for a body that does not parse or has no package,
\* else 400 for keywords without "Christmas 2024", else 204 when no order
\* has a valid quantity, else 200 with exactly one "item: quantity" line
\* per order with a valid quantity, in input order.
C25_Original == Precedence(AsWritten)

\* C25 (amended): the same precedence, and the 200 body is those lines
\* joined by newlines and then trimmed of leading and trailing whitespace:
\* still one line per valid order, but whitespace that begins the first
\* item is not written.
C25_PrecedenceTrimmed == Precedence(Trimmed)

\* answered 200 with two lines, the first for the item " Doll" written
\* without its space
C25_Witness ==
    /\ out.req.op = "manifest"
    /\ out.status = 200
    /\ Len(split(out.body, "\n")) = 2
    /\ out.body[1] = "D"
    /\ \E p \in Written(out.req).package : ValidLines(p)[1][1] = " "

\* a body that JSON reads as two valid orders was answered 415 under
\* another Content-Type, in the second request of a client
C25_WitnessUnsupported ==
    /\ calls = 2
    /\ out.req.op = "manifest"
    /\ out.status = 415
    /\ \E p \in out.req.body.json.package : ListsMagic(p) /\ Len(ValidLines(p)) = 2

\* the header of a token names one of the three RSA algorithms decode
\* supports
NamesRsa(jwt) == jwt.header \in {"RS256", "RS384", "RS512"}

\* the signature of a token reads and was not made with the key
InvalidSignature(jwt, key) == jwt.signature \notin {Unreadable, key}

\* C26: decode answers 401 exactly when the header of the token names
\* RS256, RS384 or RS512 and its signature is invalid (reads, and was not
\* made with the key of rsa.pem), and 400 when the header cannot be read or
\* names another algorithm; unwrap never answers 401: it answers 400 to a
\* jar without the gift cookie, to a token whose header cannot be read and
\* to an HS256 token whose signature was not made with the secret.
C26_ErrorMapping ==
    /\ out.req.op = "decode"
       => /\ out.status = 401
             <=> NamesRsa(out.req.jwt) /\ InvalidSignature(out.req.jwt, "rsa.pem")
          /\ ~NamesRsa(out.req.jwt) => out.status = 400
          /\ out.status \in {200, 400, 401}
    /\ out.req.op = "unwrap"
       => /\ out.status \in {200, 400}
          /\ "gift" \notin DOMAIN out.req.jar => out.status = 400
          /\ "gift" \in DOMAIN out.req.jar
             => LET jwt == out.req.jar["gift"]
                IN  /\ jwt.header = Unreadable => out.status = 400
                    /\ jwt.signature # "perkele-santa" => out.status = 400

\* decode answered 401 to an RS384 token signed with another key, whose
\* claims cannot even be read
C26_Witness ==
    /\ out.req.op = "decode"
    /\ out.req.jwt = [header |-> "RS384", payload |-> Unreadable,
                      signature |-> OtherKey]
    /\ out.status = 401

\* unwrap answered 400 to an HS256 token with readable claims signed with
\* another key
C26_WitnessUnwrap ==
    /\ out.req.op = "unwrap"
    /\ "gift" \in DOMAIN out.req.jar
    /\ out.req.jar["gift"].header = "HS256"
    /\ out.req.jar["gift"].payload \notin {Unreadable, ExpiredClaims}
    /\ out.req.jar["gift"].signature = OtherKey
    /\ out.status = 400

\* the token a list request of caller c carries is in the map
KnownToken(c) == req[c].token # {} /\ req[c].token \subseteq DOMAIN db_state.tokens

\* C27: a list call without a token works on page 1 and one with a known
\* token on the page stored for it, and answers that page; its total is the
\* least number of pages of 3 that hold the count it read, ceil(count / 3);
\* unless the repository fails (500), the answer carries a next_token if
\* and only if page < total, that token is then stored mapping to page + 1
\* and nothing else in the map changes; a call with an unknown token is
\* answered 400 as soon as it has the lock and stores nothing.
C27_Pagination ==
    [][\A c \in Callers :
        /\ (pc[c] = "list_wait" /\ pc'[c] # "list_wait")
           => IF req[c].token = {}
              THEN pc'[c] = "list_count" /\ locals'[c].page = 1
              ELSE IF KnownToken(c)
              THEN /\ pc'[c] = "list_count"
                   /\ \A t \in req[c].token : locals'[c].page = db_state.tokens[t]
              ELSE /\ pc'[c] = "idle"
                   /\ out'.req = req[c]
                   /\ out'.status = 400
                   /\ db_state'.tokens = db_state.tokens
        /\ (pc[c] = "list_count" /\ pc'[c] = "list_quotes")
           => /\ locals'[c].page = locals[c].page
              /\ 3 * (locals'[c].total_pages - 1) < db_state.quotes
              /\ db_state.quotes <= 3 * locals'[c].total_pages
        /\ (pc[c] = "list_quotes" /\ pc'[c] = "list_quotes")
           => locals'[c] = locals[c]
        /\ (pc[c] \in {"list_count", "list_quotes"} /\ pc'[c] = "idle")
           => /\ out'.req = req[c]
              /\ out'.status \in {200, 500}
              /\ out'.status = 500 => db_state'.tokens = db_state.tokens
              /\ out'.status = 200
                 => /\ pc[c] = "list_quotes"
                    /\ out'.body.page = locals[c].page
                    /\ out'.body.next_token # {}
                       <=> locals[c].page < locals[c].total_pages
                    /\ Cardinality(out'.body.next_token) <= 1
                    /\ \A n \in out'.body.next_token :
                         /\ DOMAIN db_state'.tokens = DOMAIN db_state.tokens \cup {n}
                         /\ db_state'.tokens[n] = locals[c].page + 1
                         /\ \A t \in DOMAIN db_state.tokens \ {n} :
                                db_state'.tokens[t] = db_state.tokens[t]
                    /\ out'.body.next_token = {}
                       => db_state'.tokens = db_state.tokens
      ]_vars

\* a list call with a known token was answered page 2 of 3 (seven quotes)
\* with a next token, a name other than the one it sent, stored for page 3
C27_Witness ==
    /\ \A c \in Callers : pc[c] = "idle"
    /\ out.req.op = "list"
    /\ out.req.token # {}
    /\ out.status = 200
    /\ db_state.quotes = 7
    /\ out.body.page = 2
    /\ out.body.next_token # {}
    /\ out.body.next_token # out.req.token
    /\ \A n \in out.body.next_token : db_state.tokens[n] = 3
    /\ \A t \in out.req.token : db_state.tokens[t] = 2

\* a list call with a token that is not in the map, which holds another,
\* was answered 400
C27_WitnessUnknown ==
    /\ out.req.op = "list"
    /\ out.req.token # {}
    /\ out.status = 400
    /\ DOMAIN db_state.tokens # {}
    /\ out.req.token \cap DOMAIN db_state.tokens = {}

\* caller c's handler of one of the operations ops takes a step
StepAmong(c, ops) == \E op \in ops : StepOf(c, op)

\* C28: a result other than None keeps its value at every step of a place,
\* an inspect and a randomize call; the only step that changes it is the
\* one at which a reset replaces the board, and that step makes it None.
C28_ResultStable ==
    [][/\ board.winner # None
          => /\ \A c \in Callers :
                    StepAmong(c, {"place", "board", "random"})
                        => board'.winner = board.winner
             /\ board'.winner # board.winner
                    => /\ ResetReplaces
                       /\ board'.winner = None
                       /\ board' = BoardNew
       /\ (board.winner = None /\ board'.winner # None)
          => \E c \in Callers : PlacePuts(c)
      ]_vars

\* on a game that Cookie has won, with an Empty tile left, two calls were
\* answered, the second a randomize call, and the result is still Cookie's
C28_Witness ==
    /\ calls = 2
    /\ \A c \in Callers : pc[c] = "idle"
    /\ board.winner = WinCookie
    /\ \E j \in playable_columns : ColumnOpen(board, j)
    /\ out.req.op = "random"
    /\ out.status = OK

\* caller c is a place or inspect call waiting for the lock of board
WaitsForBoard(c) == pc[c] \in {"place_wait", "board_wait"}

OutOfRange == Columns \ (1 .. 4)

\* C30: the column check of place comes before the request for the lock of
\* board and before the look at the winner. A place with a column outside
\* 1..4 can be received whoever holds the lock of board; the step that
\* receives it answers 400, also when the game is over (never 503), leaves
\* every caller where it was (the caller never waits for the lock) and
\* touches neither the board nor the lock.
C30_RangeBeforeLock ==
    /\ [](\A c \in Callers :
            (CanCall(c) /\ (board_lock # NoCaller \/ GameOver(board)))
                => \A column \in OutOfRange : ENABLED PlaceCall(c, Cookie, column))
    /\ [][\A c \in Callers, team \in Teams, column \in OutOfRange :
            PlaceCall(c, team, column)
                => /\ pc' = pc
                   /\ out' = [req |-> [op |-> "place", team |-> team,
                                       column |-> column],
                              status |-> BAD_REQUEST, body |-> EmptyBody]
                   /\ UNCHANGED <<board, board_lock>>
         ]_vars

\* a place in column 0 was answered 400 while another caller holds the lock
\* of board between its two steps
C30_Witness ==
    /\ out.req.op = "place"
    /\ out.req.column = 0
    /\ out.status = BAD_REQUEST
    /\ \E d \in Callers : board_lock = d /\ pc[d] = "place_locked"

\* a place in column 0 was answered 400 on a finished game
C30_WitnessOver ==
    /\ out.req.op = "place"
    /\ out.req.column = 0
    /\ out.status = BAD_REQUEST
    /\ GameOver(board)
    /\ calls = 1

\* the lines a result is written as
ResultLines == {WinnerDisplay(w) : w \in {WinCookie, WinMilk, Tie}}

\* C31: the board of the random session never has a winner: its winner
\* field is None in every state, and the text random returns is the five
\* lines of tiles and no result line, whatever lines of one team the drawn
\* tiles form.
C31_RandomNoResult ==
    /\ random_board.board.winner = None
    /\ out.req.op = "random"
          => /\ out.status = OK
             /\ Len(out.body) = ROWS
             /\ \A i \in 1..Len(out.body) : out.body[i] \notin ResultLines

\* random returned a board whose four rows each belong to one team
C31_Witness ==
    /\ out.req.op = "random"
    /\ out.body = BoardToString(random_board.board)
    /\ random_board.seed > 0
    /\ winner_on_row(random_board.board) # None
    /\ \E p \in Teams : HasLine(random_board.board, p)
    /\ board_full(random_board.board)

\* in every playable column the cells above an Empty cell are Empty: the
\* tokens of a column rest on the floor with no gap between them
Stacked(b) ==
    \A j \in playable_columns : \A i \in playable_rows :
        b.tiles[i][j] = Empty
            => \A k \in playable_rows : k < i => b.tiles[k][j] = Empty

\* C32: the tokens of each playable column of the game board form one
\* stack that rests on the floor, in every state; and a cell that holds a
\* team holds the same team after every step other than the one in which
\* reset replaces the board.
C32_Stack ==
    /\ [](Stacked(board))
    /\ [][ResetReplaces
            \/ \A i \in playable_rows : \A j \in playable_columns :
                  board.tiles[i][j] \in TeamTiles
                      => board'.tiles[i][j] = board.tiles[i][j]
         ]_vars

\* a place was answered 200 for a token put on a token of the other team,
\* with free cells left above it
C32_Witness ==
    /\ out.req.op = "place"
    /\ out.status = OK
    /\ placed > 0
    /\ \E i \in 1..2 :
          LET j == out.req.column
          IN  /\ board.tiles[i][j] = TileFrom(out.req.team)
              /\ board.tiles[i + 1][j] \in TeamTiles \ {TileFrom(out.req.team)}
              /\ board.tiles[i - 1][j] = Empty

\* the number of playable cells of the board
InteriorCells == Cardinality(playable_rows) * Cardinality(playable_columns)

\* C33: a game is over after at most 16 placements. The place calls
\* answered 200 since the last Board::new are as many as the tokens on the
\* board and never more than 16; a board with no Empty playable cell has a
\* result; and a place answered 200 found an Empty playable cell and no
\* result, so that none is answered 200 on a full board.
C33_SixteenPlacements ==
    /\ [](placed = Cardinality(Occupied(board)))
    /\ [](placed <= InteriorCells /\ InteriorCells = 16)
    /\ [](InteriorFull(board) => board.winner # None)
    /\ [][placed' = placed + 1
            => /\ ~InteriorFull(board)
               /\ board.winner = None
               /\ out'.req.op = "place"
               /\ out'.status = OK
         ]_vars
    /\ [][(out' # out /\ out'.req.op = "place" /\ out'.status = OK)
            => (placed' = placed + 1 /\ ~InteriorFull(board))
         ]_vars

\* the sixteenth placement was answered 200: the board is full and the
\* game has its result
C33_Witness ==
    /\ placed = 16
    /\ out.req.op = "place"
    /\ out.status = OK
    /\ InteriorFull(board)
    /\ board.winner # None

\* a place on the full board was refused
C33_WitnessRefused ==
    /\ placed = 16
    /\ InteriorFull(board)
    /\ out.req.op = "place"
    /\ out.req.column \in playable_columns
    /\ out.status = SERVICE_UNAVAILABLE

\* the text of the empty board: four rows of Empty tiles between two
\* walls, the floor, and no result line
EmptyBoardText ==
    [n \in 1..ROWS |->
        IF n < ROWS THEN "[white][black][black][black][black][white]"
        ELSE "[white][white][white][white][white][white]"]

\* caller c is in reset after it replaced the board
ResetHolds(c) == pc[c] \in {"reset_wait_random", "reset_locked"}

\* C34: reset always answers 200 with the text of the empty board, without
\* result line. From the step that replaces the board to the return, the
\* caller in reset holds the lock of board, the board stays the empty one
\* and no place is between free_spot and place_team, also while reset
\* waits for the lock of the random board.
C34_ResetAnswersEmpty ==
    /\ out.req.op = "reset" => (out.status = OK /\ out.body = EmptyBoardText)
    /\ \A c \in Callers :
          ResetHolds(c)
              => /\ board_lock = c
                 /\ board = BoardNew
                 /\ BoardToString(board) = EmptyBoardText
                 /\ \A d \in Callers : pc[d] # "place_locked"

\* reset answered while a place with valid arguments was waiting for the
\* lock of board: the board is still the empty one
C34_Witness ==
    /\ out.req.op = "reset"
    /\ out.body = EmptyBoardText
    /\ board = BoardNew
    /\ board_lock = NoCaller
    /\ \E d \in Callers :
          /\ pc[d] = "place_wait"
          /\ req[d].op = "place"
          /\ ColumnOpen(board, req[d].column)

\* reset holds both locks while a place is waiting for the lock of board
C34_WitnessHeld ==
    \E c, d \in Callers :
        /\ pc[c] = "reset_locked"
        /\ board_lock = c
        /\ random_lock = c
        /\ pc[d] = "place_wait"

\* the step is the return of a list call of caller c that stored token t
Issues(c, t) ==
    /\ pc[c] = "list_quotes"
    /\ pc'[c] = "idle"
    /\ out'.req = req[c]
    /\ out'.status = OK
    /\ out'.body.next_token = {t}

\* the step is a reset_quotes call
ResetsQuotes == calls' = calls + 1 /\ pc' = pc /\ out'.req.op = "reset_quotes"

\* C35 as stated: no token is ever removed and every token maps to the
\* same page in all later states.
C35_Original ==
    [][\A t \in DOMAIN db_state.tokens :
          /\ t \in DOMAIN db_state'.tokens
          /\ db_state'.tokens[t] = db_state.tokens[t]
      ]_vars

\* C35, amended: no step removes a token from the map, so a token once
\* stored is accepted by every later list call, any number of times; the
\* page of a stored token changes in one case only, when a list call draws
\* the same string again as its next token, and then it becomes the page
\* after the one that call returned; reset_quotes (like draft) leaves the
\* map as it is.
C35_TokensKept ==
    [][/\ \A t \in DOMAIN db_state.tokens :
             /\ t \in DOMAIN db_state'.tokens
             /\ db_state'.tokens[t] # db_state.tokens[t]
                   => \E c \in Callers :
                         /\ Issues(c, t)
                         /\ db_state'.tokens[t] = out'.body.page + 1
       /\ \A c \in Callers :
             (pc[c] = "list_wait" /\ pc'[c] # "list_wait" /\ KnownToken(c))
                 => /\ pc'[c] = "list_count"
                    /\ db_state'.tokens = db_state.tokens
       /\ (calls' = calls + 1 /\ pc' = pc) => db_state'.tokens = db_state.tokens
       /\ ResetsQuotes
             => (out'.status = OK => db_state'.quotes = 0)
      ]_vars

\* a token for page 2, stored before the quotes were reset, was accepted
\* after the reset: list answered 200 with page 2 of no quotes
C35_Witness ==
    /\ out.req.op = "list"
    /\ out.req.token # {}
    /\ out.req.token \subseteq DOMAIN db_state.tokens
    /\ out.status = OK
    /\ db_state.quotes = 0
    /\ out.body.page = 2
    /\ out.body.quotes = <<>>
    /\ out.body.next_token = {}
    /\ calls = 3

\* list called with a token drew the same string as next token: the token
\* sent now maps to the following page
C35_WitnessRedrawn ==
    /\ out.req.op = "list"
    /\ out.status = OK
    /\ out.req.token # {}
    /\ out.body.next_token = out.req.token
    /\ \A t \in out.req.token : db_state.tokens[t] = out.body.page + 1

\* the step is a milk call
MilkStep == calls' = calls + 1 /\ out'.req.op = "milk"

\* C36: the limiter starts with 5 tokens and always holds 0..5. A milk
\* call that finds no token answers 429 and changes nothing else; a call
\* that finds one takes it whatever it then answers: 200, or 400 for a
\* body that is no Milk under Content-Type application/json. A step that
\* is no call adds one token, up to 5.
C36_TokenFirst ==
    /\ limiter = 5
    /\ [](limiter \in 0..5)
    /\ [][IF MilkStep
          THEN /\ limiter = 0
                  => /\ out'.status = TOO_MANY_REQUESTS
                     /\ out'.body = NoMilkAvailable
                     /\ limiter' = 0
               /\ limiter > 0
                  => /\ limiter' = limiter - 1
                     /\ out'.status \in {OK, BAD_REQUEST}
                     /\ out'.status = BAD_REQUEST
                           <=> /\ out'.req.headers = {"application/json"}
                               /\ (Len(out'.req.body) # 1
                                    \/ out'.req.body[1][1] \notin MilkUnits)
               /\ UNCHANGED <<pc, req, db_state, board, random_board>>
          ELSE /\ limiter' = IF limiter < 5 THEN limiter + 1 ELSE 5
               /\ UNCHANGED <<out, calls>>
         ]_vars

\* the sixth of six calls found the bucket empty: 429
C36_Witness ==
    /\ out.req.op = "milk"
    /\ out.status = TOO_MANY_REQUESTS
    /\ limiter = 0
    /\ calls = 6

\* the first call sent an invalid body as JSON: 400, and the token is gone
C36_WitnessInvalid ==
    /\ out.req.op = "milk"
    /\ out.status = BAD_REQUEST
    /\ limiter = 4
    /\ calls = 1

====
